---- MODULE Spec2Model ----
(***************************************************************************)
(* A model of the SSA middle-end of the Noir compiler: the data-flow graph *)
(* (instruction arena, block instruction list, value forwarding), the cast *)
(* simplifier, the bit-shift lowering pass and the value merger of CFG     *)
(* flattening.                                                             *)
(*                                                                         *)
(* Numbers.  TLC's integers are 32 bits wide, so the 254-bit prime field   *)
(* of the compiler is modelled by a 13-bit prime field, and the machine    *)
(* integer widths that the code compares with the field's bit count are    *)
(* scaled with it, keeping their order and the facts the code relies on:   *)
(*                                                                         *)
(*      in the build                      in the model                     *)
(*      field modulus (254 bits)          FieldModulus (13 bits)           *)
(*      u8   (bit counts, 0..255)         U8Bits   = 4  (0..15)            *)
(*      u32                               U32Bits  = 6                     *)
(*      u128 (2^k as a machine integer)   U128Bits = 8                     *)
(*      integer types u1..u64, i8..i64    bit sizes 1..MaxBitSize          *)
(*                                                                         *)
(* As in the build: the field's bit count fits a u8 and sits just below    *)
(* its capacity (254 of 255; 13 of 15), u128 is narrower than the field    *)
(* but two of them are wider, and the product of two values of the widest  *)
(* integer type fits the field.                                            *)
(***************************************************************************)
EXTENDS Integers, Sequences, FiniteSets, TLC

(* ------------------------------------------------------------------ *)
(* Bounds of the model                                                  *)
(* ------------------------------------------------------------------ *)

\* Integer types of the modelled programs have 1..MaxBitSize bits.
MaxBitSize == 4

\* The graph of the forwarding specification has NumValues values.
NumValues == 3

(* ------------------------------------------------------------------ *)
(* FieldElement and machine integers                                    *)
(* ------------------------------------------------------------------ *)

\* The modulus of FieldElement (a prime; scaled, see above).
FieldModulus == 6197

\* Widths of the machine integer types u8, u32 and u128 (scaled, see above).
U8Bits == 4
U32Bits == 6
U128Bits == 8

Pow2(n) == 2 ^ n

RECURSIVE BitLength(_)
\* Number of binary digits of k; 0 for k = 0.
BitLength(k) == IF k = 0 THEN 0 ELSE 1 + BitLength(k \div 2)

\* FieldElement::num_bits: the bits needed to represent this element; zero
\* is taken to need a single bit.
num_bits(k) == IF k = 0 THEN 1 ELSE BitLength(k)

\* FieldElement::max_num_bits: the bit count of the modulus.
FieldMaxNumBits == BitLength(FieldModulus - 1)

U8Modulus == Pow2(U8Bits)

\* FieldElement::to_u128: the low 128 bits of the element.
to_u128(k) == k % Pow2(U128Bits)

\* `as u32` and `as u8`: truncating integer conversions.
\* A mutant: the cast keeps fewer bits than the shift amounts have.
as_u32_narrow(k) == k % U128Bits
as_u32(k) == k % Pow2(U32Bits)
as_u8(k) == k % U8Modulus

\* Field arithmetic.
FieldAdd(a, b) == (a + b) % FieldModulus
FieldSub(a, b) == (a - b) % FieldModulus
FieldMul(a, b) == (a * b) % FieldModulus

(* ------------------------------------------------------------------ *)
(* Types, values and instructions                                       *)
(* ------------------------------------------------------------------ *)

NativeField == [kind |-> "NativeField"]
Unsigned(n) == [kind |-> "Unsigned", bit_size |-> n]
Signed(n) == [kind |-> "Signed", bit_size |-> n]
BoolType == Unsigned(1)
ArrayType(element_types, length) ==
    [kind |-> "Array", element_types |-> element_types, length |-> length]
SliceType(element_types) == [kind |-> "Slice", element_types |-> element_types]
ReferenceType == [kind |-> "Reference"]
FunctionType == [kind |-> "Function"]

IsNumeric(typ) == typ.kind \in {"NativeField", "Unsigned", "Signed"}

\* NumericType::bit_size
bit_size_of(typ) == IF typ.kind = "NativeField" THEN FieldMaxNumBits ELSE typ.bit_size

\* The variants of Value.
Param(position) == [tag |-> "Param", position |-> position]
NumericConstant(constant, typ) ==
    [tag |-> "NumericConstant", constant |-> constant, typ |-> typ]
InstructionResult(instruction) ==
    [tag |-> "Instruction", instruction |-> instruction, position |-> 0]
FunctionValue(id) == [tag |-> "Function", id |-> id]
Intrinsic(intrinsic) == [tag |-> "Intrinsic", intrinsic |-> intrinsic]
NoValue == [tag |-> "None"]

\* The variants of Instruction the modelled passes handle.
Binary(lhs, operator, rhs) ==
    [op |-> "Binary", lhs |-> lhs, operator |-> operator, rhs |-> rhs]
Not(value) == [op |-> "Not", value |-> value]
Cast(value, typ) == [op |-> "Cast", value |-> value, typ |-> typ]
Truncate(value, bit_size, max_bit_size) ==
    [op |-> "Truncate", value |-> value, bit_size |-> bit_size,
     max_bit_size |-> max_bit_size]
CallToBits(argument, result_type) ==
    [op |-> "Call", func |-> "ToBits(Little)", argument |-> argument,
     result_type |-> result_type]
ArrayGet(array, index, result_type) ==
    [op |-> "ArrayGet", array |-> array, index |-> index, result_type |-> result_type]

MakeArray(elements, typ) == [op |-> "MakeArray", elements |-> elements, typ |-> typ]
ArraySet(array, index, value) ==
    [op |-> "ArraySet", array |-> array, index |-> index, value |-> value,
     mutable |-> FALSE]
EnableSideEffectsIf(condition) == [op |-> "EnableSideEffectsIf", condition |-> condition]
\* A call of the value func that returns one result.
Call(func, arguments, result_type) ==
    [op |-> "Call", func |-> func, arguments |-> arguments, result_type |-> result_type]

\* DataFlowGraph index by InstructionId: ids count from 0.
InstructionAt(instructions, id) == instructions[id + 1]

\* The variants of InstructionResultType.
Operand(value) == [kind |-> "Operand", value |-> value]
Known(typ) == [kind |-> "Known", typ |-> typ]

\* Instruction::result_type: a comparison is a bool, any other Binary, a Not
\* and a Truncate have the type of their operand, the others declare their
\* type.
instruction_result_type(ins) ==
    CASE ins.op = "Binary" ->
            IF ins.operator \in {"Lt", "Eq"} THEN Known(BoolType) ELSE Operand(ins.lhs)
      [] ins.op \in {"Not", "Truncate"} -> Operand(ins.value)
      [] ins.op \in {"Cast", "MakeArray"} -> Known(ins.typ)
      [] ins.op \in {"Call", "ArrayGet"} -> Known(ins.result_type)
      [] ins.op = "ArraySet" -> Operand(ins.array)
      [] ins.op = "EnableSideEffectsIf" -> Known(NoValue)

\* The result type of the instruction that made `value`, Known(..) for a
\* value that is no instruction result.
result_type_of(instructions, value) ==
    IF value.tag = "Instruction"
    THEN instruction_result_type(InstructionAt(instructions, value.instruction))
    ELSE Known(NoValue)

RECURSIVE type_of_value(_, _, _)
\* DataFlowGraph::type_of_value
type_of_value(instructions, params, value) ==
    IF result_type_of(instructions, value).kind = "Operand"
    THEN type_of_value(instructions, params, result_type_of(instructions, value).value)
    ELSE CASE value.tag = "Instruction" -> result_type_of(instructions, value).typ
           [] value.tag = "Param" -> params[value.position + 1]
           [] value.tag = "NumericConstant" -> value.typ
           [] value.tag \in {"Function", "Intrinsic"} -> FunctionType

\* A resolve that follows one forwarding entry only.
resolve_one_step(replaced, value) ==
    IF value \in DOMAIN replaced THEN replaced[value] ELSE value

RECURSIVE resolve(_, _)
\* DataFlowGraph::resolve: chase the forwarding chain.  The recursion does
\* not end on a cyclic map; see Diverges.
resolve(replaced, value) ==
    IF value \in DOMAIN replaced THEN resolve(replaced, replaced[value]) ELSE value

\* DataFlowGraph::get_numeric_constant: the field element, or -1 for None.
get_numeric_constant(replaced, value) ==
    LET v == resolve(replaced, value) IN
    IF v.tag = "NumericConstant" THEN v.constant ELSE -1

\* DataFlowGraph::get_value_max_num_bits
get_value_max_num_bits(instructions, params, value) ==
    CASE value.tag = "Instruction" ->
            LET ins == InstructionAt(instructions, value.instruction) IN
            IF ins.op = "Cast"
            THEN bit_size_of(type_of_value(instructions, params, ins.value))
            ELSE bit_size_of(type_of_value(instructions, params, value))
      [] value.tag = "NumericConstant" -> num_bits(value.constant)
      [] OTHER -> bit_size_of(type_of_value(instructions, params, value))

(* ------------------------------------------------------------------ *)
(* The value an instruction computes in a constrained (ACIR) function   *)
(* ------------------------------------------------------------------ *)

\* A u-bit two's complement pattern read as a signed integer, and back.
ToSigned(v, n) == IF v >= Pow2(n - 1) THEN v - Pow2(n) ELSE v
FromSigned(x, n) == x % Pow2(n)

Abs(x) == IF x < 0 THEN -x ELSE x

\* Signed division rounds towards zero.
SignedDiv(a, b, n) ==
    LET x == ToSigned(a % Pow2(n), n)
        y == ToSigned(b % Pow2(n), n)
        q == Abs(x) \div Abs(y)
    IN FromSigned(IF (x < 0) # (y < 0) THEN -q ELSE q, n)

\* Binary: Add, Sub and Mul are the field's operations whatever the operand
\* type (a pass that needs the wrapped result inserts a Truncate); Div is
\* integer division of the operand type; Lt compares as the operand type
\* orders.  Division by zero has no value (-1), and neither has a bit shift,
\* which ACIR has no opcode for.
EvalBinary(operator, typ, a, b) ==
    CASE operator = "Add" -> FieldAdd(a, b)
      [] operator = "Sub" -> FieldSub(a, b)
      [] operator = "Mul" -> FieldMul(a, b)
      [] operator = "Div" ->
            IF b = 0 THEN -1
            ELSE IF typ.kind = "Signed" THEN SignedDiv(a, b, typ.bit_size)
            ELSE a \div b
      [] operator = "Lt" ->
            IF typ.kind = "Signed"
            THEN IF ToSigned(a, typ.bit_size) < ToSigned(b, typ.bit_size) THEN 1 ELSE 0
            ELSE IF a < b THEN 1 ELSE 0
      [] operator = "Eq" -> IF a = b THEN 1 ELSE 0
      [] operator \in {"Shl", "Shr"} -> -1

\* Not flips the bits of the operand's type.
EvalNot(typ, a) == Pow2(bit_size_of(typ)) - 1 - a

\* Cast keeps a value that fits the destination and drops the bits above it.
EvalCast(dst_typ, a) ==
    IF dst_typ.kind = "NativeField" THEN a ELSE a % Pow2(dst_typ.bit_size)

\* Truncate keeps the low bit_size bits; the result of a subtraction first
\* has 2^bit_size added, so that a borrow does not wrap around the field.
EvalTruncate(of_sub, bit_size, a) ==
    (IF of_sub THEN FieldAdd(a, Pow2(bit_size)) ELSE a) % Pow2(bit_size)

\* ToBits(Little): the bits of a, least significant first.
EvalToBits(a, n) == [i \in 1..n |-> (a \div Pow2(i - 1)) % 2]

IsSubResult(instructions, value) ==
    /\ value.tag = "Instruction"
    /\ InstructionAt(instructions, value.instruction).op = "Binary"
    /\ InstructionAt(instructions, value.instruction).operator = "Sub"

\* The value of an operand, given the values vals of the instructions
\* before it and the values env of the block parameters.
ValueOf(value, vals, env) ==
    CASE value.tag = "Param" -> env[value.position + 1]
      [] value.tag = "NumericConstant" -> value.constant
      [] value.tag = "Instruction" -> vals[value.instruction + 1]

EvalInstruction(instructions, params, ins, vals, env) ==
    CASE ins.op = "Binary" ->
            EvalBinary(ins.operator, type_of_value(instructions, params, ins.lhs),
                       ValueOf(ins.lhs, vals, env), ValueOf(ins.rhs, vals, env))
      [] ins.op = "Not" ->
            EvalNot(type_of_value(instructions, params, ins.value),
                    ValueOf(ins.value, vals, env))
      [] ins.op = "Cast" -> EvalCast(ins.typ, ValueOf(ins.value, vals, env))
      [] ins.op = "Truncate" ->
            EvalTruncate(IsSubResult(instructions, ins.value), ins.bit_size,
                         ValueOf(ins.value, vals, env))
      [] ins.op = "Call" ->
            EvalToBits(ValueOf(ins.argument, vals, env), ins.result_type.length)
      [] ins.op = "ArrayGet" ->
            ValueOf(ins.array, vals, env)[ValueOf(ins.index, vals, env) + 1]
      [] ins.op = "MakeArray" ->
            [i \in 1..Len(ins.elements) |-> ValueOf(ins.elements[i], vals, env)]

RECURSIVE EvalPrefix(_, _, _, _, _)
\* The values of the first n instructions of the arena, in arena order (an
\* instruction only uses results of instructions made before it), given the
\* values vals of the first Len(vals) of them; the instructions in between
\* are evaluated half by half.
EvalPrefix(instructions, params, env, vals, n) ==
    IF Len(vals) >= n THEN vals
    ELSE IF Len(vals) + 1 = n
    THEN Append(vals, EvalInstruction(instructions, params, instructions[n], vals, env))
    ELSE EvalPrefix(instructions, params, env,
                    EvalPrefix(instructions, params, env, vals, (Len(vals) + n) \div 2),
                    n)

\* The value of `value` under the parameter values env.
Eval(instructions, params, env, value) ==
    ValueOf(value, EvalPrefix(instructions, params, env, <<>>, Len(instructions)), env)

(* ------------------------------------------------------------------ *)
(* DataFlowGraph: a record dfg of                                       *)
(*   instructions     the arena (DenseMap<Instruction>), ids from 0     *)
(*   block            the instruction ids of the block, in order        *)
(*   params           the block's parameter types                       *)
(*   replaced_values  the forwarding map                                *)
(* ------------------------------------------------------------------ *)

\* The variants of SimplifyResult that simplify_cast returns.
SimplifiedTo(value) == [kind |-> "SimplifiedTo", value |-> value]
SimplifiedToInstruction(instruction) ==
    [kind |-> "SimplifiedToInstruction", instruction |-> instruction]
SimplifyNone == [kind |-> "None"]

\* A constant arm that lets a signed destination take every constant below
\* 2^bit_size.
simplify_cast_constant_full_range(value, constant, src_typ, dst_typ) ==
    CASE src_typ.kind = "NativeField" /\ dst_typ.kind = "NativeField" ->
            SimplifiedTo(value)
      [] src_typ.kind # "NativeField" /\ dst_typ.kind = "NativeField" ->
            SimplifiedTo(NumericConstant(constant, dst_typ))
      [] dst_typ.kind = "Unsigned" ->
            SimplifiedTo(NumericConstant((constant % Pow2(dst_typ.bit_size)) % FieldModulus,
                                         dst_typ))
      [] dst_typ.kind = "Signed" ->
            IF constant < Pow2(dst_typ.bit_size)
            THEN SimplifiedTo(NumericConstant(constant, dst_typ))
            ELSE SimplifyNone

\* simplify_cast, the constant arm: the match on (src_typ, dst_typ).
simplify_cast_constant(value, constant, src_typ, dst_typ) ==
    CASE src_typ.kind = "NativeField" /\ dst_typ.kind = "NativeField" ->
            SimplifiedTo(value)
      [] src_typ.kind # "NativeField" /\ dst_typ.kind = "NativeField" ->
            SimplifiedTo(NumericConstant(constant, dst_typ))
      [] dst_typ.kind = "Unsigned" ->
            LET integer_modulus == Pow2(dst_typ.bit_size)
                truncated == (constant % integer_modulus) % FieldModulus
            IN SimplifiedTo(NumericConstant(truncated, dst_typ))
      [] dst_typ.kind = "Signed" ->
            LET integer_modulus == Pow2(dst_typ.bit_size - 1) IN
            IF constant < integer_modulus
            THEN SimplifiedTo(NumericConstant(constant, dst_typ))
            ELSE SimplifyNone

\* A simplify_cast that does not look through a cast of a cast.
simplify_cast_keeping_inner(dfg, value0, dst_typ) ==
    LET value == resolve(dfg.replaced_values, value0)
        constant == get_numeric_constant(dfg.replaced_values, value)
    IN IF constant # -1
       THEN simplify_cast_constant(value, constant,
                type_of_value(dfg.instructions, dfg.params, value), dst_typ)
       ELSE IF dst_typ = type_of_value(dfg.instructions, dfg.params, value)
       THEN SimplifiedTo(value)
       ELSE SimplifyNone

\* simplify_cast
simplify_cast(dfg, value0, dst_typ) ==
    LET value == resolve(dfg.replaced_values, value0)
        of_cast == /\ value.tag = "Instruction"
                   /\ InstructionAt(dfg.instructions, value.instruction).op = "Cast"
        constant == get_numeric_constant(dfg.replaced_values, value)
    IN IF of_cast
       THEN SimplifiedToInstruction(
                Cast(InstructionAt(dfg.instructions, value.instruction).value, dst_typ))
       ELSE IF constant # -1
       THEN simplify_cast_constant(value, constant,
                type_of_value(dfg.instructions, dfg.params, value), dst_typ)
       ELSE IF dst_typ = type_of_value(dfg.instructions, dfg.params, value)
       THEN SimplifiedTo(value)
       ELSE SimplifyNone

\* Instruction::simplify: the cast simplifier for a Cast.  The simplifiers
\* of the other opcodes rewrite an instruction to one of equal value; the
\* model keeps the instruction as it is.
simplify(dfg, instruction) ==
    IF instruction.op = "Cast"
    THEN simplify_cast(dfg, instruction.value, instruction.typ)
    ELSE SimplifyNone

\* The variants of InsertInstructionResult.
Results(id, count) == [kind |-> "Results", id |-> id, result_count |-> count]
InsertSimplifiedTo(value) == [kind |-> "SimplifiedTo", value |-> value]

\* InsertInstructionResult::first
first(result) ==
    IF result.kind = "SimplifiedTo" THEN result.value ELSE InstructionResult(result.id)

\* DataFlowGraph::insert_instruction_and_results, after the instruction was
\* simplified: the graph afterwards and the InsertInstructionResult.
insert_simplified(dfg, instruction, simplified) ==
    IF simplified.kind = "SimplifiedTo"
    THEN [dfg |-> dfg, result |-> InsertSimplifiedTo(simplified.value)]
    ELSE [dfg |-> [dfg EXCEPT !.instructions =
                                  Append(@, IF simplified.kind = "SimplifiedToInstruction"
                                            THEN simplified.instruction ELSE instruction),
                              !.block = Append(@, Len(dfg.instructions))],
          result |-> Results(Len(dfg.instructions), 1)]

\* DataFlowGraph::insert_instruction_and_results
insert_instruction_and_results(dfg, instruction) ==
    insert_simplified(dfg, instruction, simplify(dfg, instruction))

\* DataFlowGraph::replace_value: the forwarding map afterwards.
replace_value(replaced, value_to_replace, new_value) ==
    IF value_to_replace # new_value
    THEN [v \in DOMAIN replaced \cup {value_to_replace} |->
            IF v = value_to_replace THEN resolve(replaced, new_value) ELSE replaced[v]]
    ELSE replaced

(* ------------------------------------------------------------------ *)
(* Straight-line code.  The passes insert their instructions by         *)
(* sequences of `let name = ...` statements; a statement names its      *)
(* operands by the local variables that hold them.  v maps the local    *)
(* variables to the Values they hold.                                   *)
(* ------------------------------------------------------------------ *)

\* `let name = value`
Bind(v, name, value) == (name :> value) @@ v

\* `let name = <insert Binary { lhs, rhs, operator }>.first()`
LetBinary(name, lhs, operator, rhs) ==
    [stmt |-> "Binary", name |-> name, lhs |-> lhs, operator |-> operator, rhs |-> rhs]
\* `let name = <insert Not(rhs)>.first()`
LetNot(name, rhs) == [stmt |-> "Not", name |-> name, rhs |-> rhs]
\* `let name = <insert Truncate { value, bit_size, max_bit_size }>.first()`
LetTruncate(name, value, bit_size, max_bit_size) ==
    [stmt |-> "Truncate", name |-> name, value |-> value,
     bit_size |-> bit_size, max_bit_size |-> max_bit_size]
\* `let name = <insert Cast(value, typ)>.first()`
LetCast(name, value, typ) == [stmt |-> "Cast", name |-> name, value |-> value, typ |-> typ]
\* `let name = <insert Call { to_bits, [argument], [result_type] }>.next().unwrap()`
LetCallToBits(name, argument, result_type) ==
    [stmt |-> "CallToBits", name |-> name, argument |-> argument,
     result_type |-> result_type]
\* `let name = <insert ArrayGet { array, index }>.first()`
LetArrayGet(name, array, index, result_type) ==
    [stmt |-> "ArrayGet", name |-> name, array |-> array, index |-> index,
     result_type |-> result_type]
\* `let name = dfg.constant(k, typ)`
LetConstant(name, k, typ) == [stmt |-> "constant", name |-> name, k |-> k, typ |-> typ]
\* `let name = self.pow(lhs, rhs)`
LetPow(name, lhs, rhs) == [stmt |-> "pow", name |-> name, lhs |-> lhs, rhs |-> rhs]
\* `let name = from`
LetCopy(name, from) == [stmt |-> "copy", name |-> name, from |-> from]

\* The instruction a statement inserts, its operands read from v.
instruction_of(v, s) ==
    CASE s.stmt = "Binary" -> Binary(v[s.lhs], s.operator, v[s.rhs])
      [] s.stmt = "Not" -> Not(v[s.rhs])
      [] s.stmt = "Truncate" -> Truncate(v[s.value], s.bit_size, s.max_bit_size)
      [] s.stmt = "Cast" -> Cast(v[s.value], s.typ)
      [] s.stmt = "CallToBits" -> CallToBits(v[s.argument], s.result_type)
      [] s.stmt = "ArrayGet" -> ArrayGet(v[s.array], v[s.index], s.result_type)

(* ------------------------------------------------------------------ *)
(* ValueMerger: a merger m is a record of                               *)
(*   dfg                the DataFlowGraph it inserts into               *)
(*   current_condition  the side-effects condition, NoValue for None    *)
(*   v                  the local variables of the running method       *)
(*   value              the value the last merge returned               *)
(*   panic              a panic, an assertion or an unwrap failed       *)
(*   slice_sizes        the length of each slice value                  *)
(*   array_set_conditionals  the condition each ArraySet was made under *)
(* ------------------------------------------------------------------ *)

\* `dfg.insert_instruction_and_results(..).first()` returned r: the
\* variable `name` holds its first result.
first_result(m, name, r) == [m EXCEPT !.dfg = r.dfg, !.v = Bind(@, name, first(r.result))]

\* One statement of the merger.
merger_statement(m, s) ==
    IF m.panic THEN m
    ELSE IF s.stmt = "constant"
    THEN [m EXCEPT !.v = Bind(@, s.name, NumericConstant(s.k, s.typ))]
    ELSE first_result(m, s.name,
                      insert_instruction_and_results(m.dfg, instruction_of(m.v, s)))

RECURSIVE merger_statements(_, _)
\* The statements ss one after the other: the first half, then the rest.
merger_statements(m, ss) ==
    IF m.panic \/ ss = <<>> THEN m
    ELSE IF Len(ss) = 1 THEN merger_statement(m, ss[1])
    ELSE merger_statements(merger_statements(m, SubSeq(ss, 1, Len(ss) \div 2)),
                           SubSeq(ss, Len(ss) \div 2 + 1, Len(ss)))

\* `return name`
return_value(m, name) == IF m.panic THEN m ELSE [m EXCEPT !.value = m.v[name]]

\* The merger that merge_numeric_values, a function of the graph alone,
\* runs in, and what it returns: the graph afterwards and the value.
numeric_merger(dfg, then_condition, else_condition, then_value, else_value) ==
    [dfg |-> dfg, current_condition |-> NoValue, value |-> NoValue, panic |-> FALSE,
     v |-> [then_condition |-> then_condition, else_condition |-> else_condition,
            then_value |-> then_value, else_value |-> else_value]]
numeric_merged(m) == [dfg |-> m.dfg, value |-> m.value, panic |-> m.panic]

\* A merge_numeric_values that multiplies both values by then_condition.
merge_numeric_values_one_condition(dfg, then_condition, else_condition, then_value, else_value) ==
    LET then_type == type_of_value(dfg.instructions, dfg.params, then_value)
        else_type == type_of_value(dfg.instructions, dfg.params, else_value)
    IN IF ~IsNumeric(then_type) \/ ~IsNumeric(else_type) \/ then_type # else_type
       THEN [dfg |-> dfg, value |-> NoValue, panic |-> TRUE]
       ELSE IF then_value = else_value
       THEN [dfg |-> dfg, value |-> then_value, panic |-> FALSE]
       ELSE numeric_merged(return_value(merger_statements(
                numeric_merger(dfg, then_condition, else_condition, then_value, else_value),
                << LetCast("else_condition", "then_condition", else_type),
                   LetCast("then_condition", "then_condition", then_type),
                   LetBinary("then_value", "then_condition", "Mul", "then_value"),
                   LetBinary("else_value", "else_condition", "Mul", "else_value"),
                   LetBinary("result", "then_value", "Add", "else_value") >>),
                "result"))

\* ValueMerger::merge_numeric_values: the graph afterwards and the value
\* returned; unwrap_numeric and assert_eq! panic.
merge_numeric_values(dfg, then_condition, else_condition, then_value, else_value) ==
    LET then_type == type_of_value(dfg.instructions, dfg.params, then_value)
        else_type == type_of_value(dfg.instructions, dfg.params, else_value)
    IN IF ~IsNumeric(then_type) \/ ~IsNumeric(else_type) \/ then_type # else_type
       THEN [dfg |-> dfg, value |-> NoValue, panic |-> TRUE]
       ELSE IF then_value = else_value
       THEN [dfg |-> dfg, value |-> then_value, panic |-> FALSE]
       ELSE numeric_merged(return_value(merger_statements(
                numeric_merger(dfg, then_condition, else_condition, then_value, else_value),
                << LetCast("then_condition", "then_condition", then_type),
                   LetCast("else_condition", "else_condition", else_type),
                   LetBinary("then_value", "then_condition", "Mul", "then_value"),
                   LetBinary("else_value", "else_condition", "Mul", "else_value"),
                   LetBinary("result", "then_value", "Add", "else_value") >>),
                "result"))

RECURSIVE merge_values(_, _, _, _, _)
RECURSIVE merge_array_values(_, _, _, _, _, _)
RECURSIVE merge_array_elements(_, _, _, _, _)
RECURSIVE merge_slice_values(_, _, _, _, _, _)
RECURSIVE common_ancestor(_, _, _, _, _)
RECURSIVE merge_changed_indices(_, _, _, _)

\* ValueMerger::find_previous_array_set: the array the ArraySet `result`
\* was applied to, with (result, index, element type, condition) pushed to
\* changed_indices, or `result` itself when no ArraySet made it.  An
\* ArraySet with no recorded condition panics.
find_previous_array_set(m, result, changed_indices) ==
    IF result.tag = "Instruction"
       /\ InstructionAt(m.dfg.instructions, result.instruction).op = "ArraySet"
    THEN IF result \in DOMAIN m.array_set_conditionals
         THEN [value |-> InstructionAt(m.dfg.instructions, result.instruction).array,
               changed_indices |->
                   Append(changed_indices,
                          << result,
                             InstructionAt(m.dfg.instructions, result.instruction).index,
                             type_of_value(m.dfg.instructions, m.dfg.params,
                                 InstructionAt(m.dfg.instructions, result.instruction).value),
                             m.array_set_conditionals[result] >>),
               panic |-> FALSE]
         ELSE [value |-> result, changed_indices |-> changed_indices, panic |-> TRUE]
    ELSE [value |-> result, changed_indices |-> changed_indices, panic |-> FALSE]

\* `seen.iter().position(|(elem, _, _, _)| *elem == value)`, -1 for None.
position(seen, value) ==
    IF \E i \in 1..Len(seen) : seen[i][1] = value
    THEN (CHOOSE i \in 1..Len(seen) :
              /\ seen[i][1] = value
              /\ \A j \in 1..(i - 1) : seen[j][1] # value) - 1
    ELSE -1

\* Vec::truncate
truncate(vec, len) == IF len >= Len(vec) THEN vec ELSE SubSeq(vec, 1, len)

\* try_merge_only_changed_indices: the end of one round of the loop, where
\* both sides step back by find_previous_array_set.
stepped_back(s, then_step, else_step) ==
    [s EXCEPT !.current_then = then_step.value, !.seen_then = then_step.changed_indices,
              !.current_else = IF then_step.panic THEN @ ELSE else_step.value,
              !.seen_else = IF then_step.panic THEN @ ELSE else_step.changed_indices,
              !.panic = then_step.panic \/ else_step.panic]

\* try_merge_only_changed_indices: the loop `for _ in 0..max_iters`, with
\* iters rounds left to run; s holds found, current_then, current_else,
\* seen_then and seen_else.
common_ancestor(m, then_value, else_value, s, iters) ==
    IF iters = 0 \/ s.panic THEN s
    ELSE IF s.current_then = else_value
    THEN [s EXCEPT !.seen_else = <<>>, !.found = TRUE]
    ELSE IF s.current_else = then_value
    THEN [s EXCEPT !.seen_then = <<>>, !.found = TRUE]
    ELSE IF position(s.seen_then, s.current_else) >= 0
    THEN [s EXCEPT !.seen_else = truncate(@, position(s.seen_then, s.current_else)),
                   !.found = TRUE]
    ELSE IF position(s.seen_else, s.current_then) >= 0
    THEN [s EXCEPT !.seen_then = truncate(@, position(s.seen_else, s.current_then)),
                   !.found = TRUE]
    ELSE common_ancestor(m, then_value, else_value,
             stepped_back(s, find_previous_array_set(m, s.current_then, s.seen_then),
                             find_previous_array_set(m, s.current_else, s.seen_else)),
             iters - 1)

\* try_merge_only_changed_indices: the hash set of (index, type, condition)
\* collected from seen_then chained with seen_else.
changed_indices_of(s) ==
    {<<s.seen_then[i][2], s.seen_then[i][3], s.seen_then[i][4]>> : i \in 1..Len(s.seen_then)}
        \cup
    {<<s.seen_else[i][2], s.seen_else[i][3], s.seen_else[i][4]>> : i \in 1..Len(s.seen_else)}

\* The order in which `for .. in changed_indices` visits the hash set: one
\* enumeration of it, the same for equal sets.
iteration_order(changed_indices) ==
    CHOOSE order \in [1..Cardinality(changed_indices) -> changed_indices] :
        \A x \in changed_indices : \E i \in DOMAIN order : order[i] = x

\* ValueMerger::insert_instruction, its result dropped.
instruction_inserted(m, r) == [m EXCEPT !.dfg = r.dfg]

\* ValueMerger::insert_array_set made the ArraySet whose insertion returned
\* r: its first result is recorded with the condition and held by `name`.
array_set_inserted(m, name, r, condition) ==
    [m EXCEPT !.dfg = r.dfg, !.v = Bind(@, name, first(r.result)),
              !.array_set_conditionals =
                  IF condition = NoValue THEN @ ELSE (first(r.result) :> condition) @@ @]

\* ValueMerger::insert_array_set
insert_array_set(m, name, array, index, value, condition) ==
    array_set_inserted(m, name,
        insert_instruction_and_results(m.dfg, ArraySet(array, index, value)), condition)

\* try_merge_only_changed_indices, the loop body after merge_values
\* returned in m: `array = self.insert_array_set(array, index, value,
\* Some(condition)).first()`; v holds the local variables of the loop.
changed_index_set(v, m, changed) ==
    IF m.panic THEN m
    ELSE insert_array_set([m EXCEPT !.v = v], "array", v["array"], changed[1], m.value,
                          changed[3])

\* try_merge_only_changed_indices, the loop body after the two ArrayGets.
changed_index_merged(m, then_condition, else_condition, changed) ==
    changed_index_set(m.v, merge_values(m, then_condition, else_condition,
                                        m.v["then_element"], m.v["else_element"]),
                      changed)

\* A mutant: both elements are read from then_value.
merge_changed_index_of_then(m, then_condition, else_condition, changed) ==
    changed_index_merged(
        merger_statements(
            instruction_inserted(
                [m EXCEPT !.v = Bind(@, "index", changed[1])],
                insert_instruction_and_results(m.dfg, EnableSideEffectsIf(changed[3]))),
            << LetArrayGet("then_element", "then_value", "index", changed[2]),
               LetArrayGet("else_element", "then_value", "index", changed[2]) >>),
        then_condition, else_condition, changed)

\* try_merge_only_changed_indices, the loop body for one changed index.
merge_changed_index(m, then_condition, else_condition, changed) ==
    changed_index_merged(
        merger_statements(
            instruction_inserted(
                [m EXCEPT !.v = Bind(@, "index", changed[1])],
                insert_instruction_and_results(m.dfg, EnableSideEffectsIf(changed[3]))),
            << LetArrayGet("then_element", "then_value", "index", changed[2]),
               LetArrayGet("else_element", "else_value", "index", changed[2]) >>),
        then_condition, else_condition, changed)

\* try_merge_only_changed_indices: `for (index, element_type, condition) in
\* changed_indices`, over the indices still to visit.
merge_changed_indices(m, then_condition, else_condition, order) ==
    IF m.panic \/ Len(order) = 0 THEN m
    ELSE merge_changed_indices(
             merge_changed_index(m, then_condition, else_condition, order[1]),
             then_condition, else_condition, Tail(order))

\* A mutant: the array is returned with the condition of the last changed
\* index left in force.
changed_indices_merged_unrestored(m, current_condition) ==
    IF m.panic THEN [m EXCEPT !.value = NoValue]
    ELSE return_value(m, "array")

\* try_merge_only_changed_indices: the side-effects condition is restored
\* and Some(array) returned.
changed_indices_merged(m, current_condition) ==
    IF m.panic THEN [m EXCEPT !.value = NoValue]
    ELSE return_value(
             instruction_inserted(m,
                 insert_instruction_and_results(m.dfg,
                                                EnableSideEffectsIf(current_condition))),
             "array")

\* try_merge_only_changed_indices after its loop ended in s.
merge_from_ancestor(m, then_condition, else_condition, then_value, else_value, array_length, s) ==
    IF s.panic THEN [m EXCEPT !.panic = TRUE, !.value = NoValue]
    ELSE IF ~s.found \/ Cardinality(changed_indices_of(s)) >= array_length
    THEN [m EXCEPT !.value = NoValue]
    ELSE changed_indices_merged(
             merge_changed_indices(
                 [m EXCEPT !.v = [then_value |-> then_value, else_value |-> else_value,
                                  array |-> then_value]],
                 then_condition, else_condition,
                 iteration_order(changed_indices_of(s))),
             m.current_condition)

\* ValueMerger::try_merge_only_changed_indices: the merger afterwards, its
\* value NoValue when None is returned.  With no current condition
\* `self.current_condition?` returns None at once; max_iters is 2.
try_merge_only_changed_indices(m, then_condition, else_condition, then_value, else_value, array_length) ==
    IF m.current_condition = NoValue THEN [m EXCEPT !.value = NoValue]
    ELSE merge_from_ancestor(m, then_condition, else_condition, then_value, else_value,
             array_length,
             common_ancestor(m, then_value, else_value,
                 [found |-> FALSE, current_then |-> then_value,
                  current_else |-> else_value, seen_then |-> <<>>, seen_else |-> <<>>,
                  panic |-> FALSE],
                 2))

\* The test of merge_values that the two resolved values are one value,
\* made never to succeed.
never_same_value(then_value, else_value) == FALSE

\* merge_values: `then_value == else_value`, on the resolved values.
same_value(then_value, else_value) == then_value = else_value

\* A merge of references or functions that returns the merger as it is.
cannot_return_ignored(m) == m

\* merge_values: the panic!("Cannot return references/functions from an if
\* expression").
cannot_return(m) == [m EXCEPT !.panic = TRUE, !.value = NoValue]

\* merge_values: merge_numeric_values returned r.
numeric_returned(m, r) == [m EXCEPT !.dfg = r.dfg, !.value = r.value, !.panic = r.panic]

\* merge_array_values: `merged.push_back(..)` of the value a nested
\* merge_values returned in m; v holds the local variables of the loop.
push_back_merged(v, m) ==
    IF m.panic THEN m
    ELSE [m EXCEPT !.v = Bind(v, "merged", Append(v["merged"], m.value))]

\* ValueMerger::merge_values
merge_values(m, then_condition, else_condition, then_value0, else_value0) ==
    LET then_value == resolve(m.dfg.replaced_values, then_value0)
        else_value == resolve(m.dfg.replaced_values, else_value0)
        typ == type_of_value(m.dfg.instructions, m.dfg.params, then_value)
    IN IF same_value(then_value, else_value)
       THEN [m EXCEPT !.value = then_value]
       ELSE CASE IsNumeric(typ) ->
                    numeric_returned(m, merge_numeric_values(
                        m.dfg, then_condition, else_condition, then_value, else_value))
              [] typ.kind = "Array" ->
                    merge_array_values(m, typ, then_condition, else_condition,
                                       then_value, else_value)
              [] typ.kind = "Slice" ->
                    merge_slice_values(m, typ, then_condition, else_condition,
                                       then_value, else_value)
              [] typ.kind \in {"Reference", "Function"} -> cannot_return(m)

\* merge_array_values: the two elements at the index are merged and the
\* result pushed to `merged`.
merge_elements(m, then_condition, else_condition) ==
    push_back_merged(m.v, merge_values(m, then_condition, else_condition,
                                       m.v["then_element"], m.v["else_element"]))

\* merge_array_values, the two loops over the elements as one loop over the
\* flattened index, from flat_index on.
merge_array_elements(m, typ, then_condition, else_condition, flat_index) ==
    IF m.panic \/ flat_index = typ.length * Len(typ.element_types)
    THEN m
    ELSE LET element_type == typ.element_types[(flat_index % Len(typ.element_types)) + 1]
         IN merge_array_elements(
                merge_elements(
                    merger_statements(m,
                        << LetConstant("index", flat_index, NativeField),
                           LetArrayGet("then_element", "then_value", "index", element_type),
                           LetArrayGet("else_element", "else_value", "index", element_type) >>),
                    then_condition, else_condition),
                typ, then_condition, else_condition, flat_index + 1)

\* merge_array_values: the instruction MakeArray { elements: merged, typ }
\* is inserted and its result returned.
make_array(m, typ) ==
    IF m.panic THEN m
    ELSE return_value(
             first_result(m, "array",
                          insert_instruction_and_results(m.dfg, MakeArray(m.v["merged"], typ))),
             "array")

\* merge_array_values after try_merge_only_changed_indices returned in m:
\* its array when it returned one, else every element is merged.
array_values_merged(m, typ, then_condition, else_condition, then_value, else_value) ==
    IF m.panic \/ m.value # NoValue THEN m
    ELSE make_array(
             merge_array_elements(
                 [m EXCEPT !.v = [then_value |-> then_value, else_value |-> else_value,
                                  merged |-> <<>>]],
                 typ, then_condition, else_condition, 0),
             typ)

\* ValueMerger::merge_array_values
merge_array_values(m, typ, then_condition, else_condition, then_value, else_value) ==
    array_values_merged(
        try_merge_only_changed_indices(m, then_condition, else_condition, then_value,
            else_value, typ.length * Len(typ.element_types)),
        typ, then_condition, else_condition, then_value, else_value)

\* DataFlowGraph::get_array_constant: the MakeArray that made the resolved
\* value, NoValue for None.
get_array_constant(dfg, value) ==
    IF resolve(dfg.replaced_values, value).tag = "Instruction"
       /\ InstructionAt(dfg.instructions,
                        resolve(dfg.replaced_values, value).instruction).op = "MakeArray"
    THEN InstructionAt(dfg.instructions, resolve(dfg.replaced_values, value).instruction)
    ELSE NoValue

\* merge_slice_values: the length of a slice, from slice_sizes or else from
\* the constant that made it; -1 stands for the panic of a slice that has
\* neither.
slice_length(m, value_id) ==
    IF value_id \in DOMAIN m.slice_sizes THEN m.slice_sizes[value_id]
    ELSE IF get_array_constant(m.dfg, value_id) = NoValue THEN -1
    ELSE Len(get_array_constant(m.dfg, value_id).elements)
             \div Len(get_array_constant(m.dfg, value_id).typ.element_types)

\* A merged length that is the shorter of the two.
merged_slice_length_min(then_len, else_len) ==
    IF then_len <= else_len THEN then_len ELSE else_len

\* merge_slice_values: `then_len.max(else_len)`
merged_slice_length(then_len, else_len) ==
    IF then_len >= else_len THEN then_len ELSE else_len

RECURSIVE make_slice_dummy_data(_, _)
RECURSIVE slice_dummy_elements(_, _, _)

\* make_slice_dummy_data: `array.push_back(..)` of the dummy returned in m.
slice_dummy_pushed(m, typ, array) == slice_dummy_elements(m, typ, Append(array, m.value))

\* make_slice_dummy_data, Type::Array arm: the two loops as one over the
\* flattened elements, then the MakeArray.
slice_dummy_elements(m, typ, array) ==
    IF m.panic THEN m
    ELSE IF Len(array) = typ.length * Len(typ.element_types)
    THEN return_value(
             first_result(m, "array",
                          insert_instruction_and_results(m.dfg, MakeArray(array, typ))),
             "array")
    ELSE slice_dummy_pushed(
             make_slice_dummy_data(m,
                 typ.element_types[(Len(array) % Len(typ.element_types)) + 1]),
             typ, array)

\* ValueMerger::make_slice_dummy_data, the dummy returned in m.value.
make_slice_dummy_data(m, typ) ==
    CASE IsNumeric(typ) -> [m EXCEPT !.value = NumericConstant(0, typ)]
      [] typ.kind = "Array" -> slice_dummy_elements(m, typ, <<>>)
      [] typ.kind \in {"Slice", "Reference", "Function"} ->
            [m EXCEPT !.panic = TRUE, !.value = NoValue]

\* merge_slice_values: the dummy made in m is held by `name`; v holds the
\* local variables of the loop.
slice_dummy_held(v, m, name) ==
    IF m.panic THEN m ELSE [m EXCEPT !.v = Bind(v, name, m.value)]

\* merge_slice_values, the closure get_element: placeholder data at and
\* beyond the length len of the slice, else an ArrayGet.
get_element(m, name, array, len, index_u32, element_type) ==
    IF m.panic THEN m
    ELSE IF len <= index_u32
    THEN slice_dummy_held(m.v, make_slice_dummy_data(m, element_type), name)
    ELSE merger_statements(m, << LetConstant("index", index_u32, NativeField),
                                 LetArrayGet(name, array, "index", element_type) >>)

RECURSIVE merge_slice_elements(_, _, _, _, _, _, _)
\* merge_slice_values, the two loops over the elements as one loop over the
\* flattened index, from index_u32 on.
merge_slice_elements(m, element_types, then_condition, else_condition, then_len, else_len, index_u32) ==
    IF m.panic
       \/ index_u32 >= merged_slice_length(then_len, else_len) * Len(element_types)
    THEN m
    ELSE merge_slice_elements(
             merge_elements(
                 get_element(
                     get_element(m, "then_element", "then_value",
                                 then_len * Len(element_types), index_u32,
                                 element_types[(index_u32 % Len(element_types)) + 1]),
                     "else_element", "else_value",
                     else_len * Len(element_types), index_u32,
                     element_types[(index_u32 % Len(element_types)) + 1]),
                 then_condition, else_condition),
             element_types, then_condition, else_condition, then_len, else_len,
             index_u32 + 1)

\* ValueMerger::merge_slice_values
merge_slice_values(m, typ, then_condition, else_condition, then_value_id, else_value_id) ==
    IF typ.kind # "Slice" \/ slice_length(m, then_value_id) < 0
       \/ slice_length(m, else_value_id) < 0
    THEN [m EXCEPT !.panic = TRUE, !.value = NoValue]
    ELSE make_array(
             merge_slice_elements(
                 [m EXCEPT !.v = [then_value |-> then_value_id,
                                  else_value |-> else_value_id, merged |-> <<>>]],
                 typ.element_types, then_condition, else_condition,
                 slice_length(m, then_value_id), slice_length(m, else_value_id), 0),
             typ)

(* ------------------------------------------------------------------ *)
(* remove_bit_shifts: a Context c is a record of                        *)
(*   dfg               the function's DataFlowGraph                     *)
(*   new_instructions  the instructions re-inserted so far              *)
(*   v                 the local variables of the running method        *)
(*   panic             an assertion, unwrap or overflow check failed    *)
(*   overflow_checks   the build traps integer overflow (a debug build) *)
(*                     instead of wrapping (a release build)            *)
(* After a panic nothing more is done.                                  *)
(* ------------------------------------------------------------------ *)

panicked(c) == [c EXCEPT !.panic = TRUE]

\* Context::insert_instruction, after dfg.insert_instruction_and_results
\* returned r: the variable `name` holds the first result.
push_result(c, name, r) ==
    [c EXCEPT !.dfg = r.dfg,
              !.new_instructions =
                  IF r.result.kind = "Results" THEN Append(@, r.result.id) ELSE @,
              !.v = Bind(@, name, first(r.result))]

\* Context::insert_instruction
insert_instruction(c, name, instruction) ==
    push_result(c, name, insert_instruction_and_results(c.dfg, instruction))

\* Context::insert_binary, insert_not, insert_truncate, insert_cast,
\* insert_call (of to_bits) and insert_array_get, for the statement s.
insert_binary(c, s) ==
    insert_instruction(c, s.name, Binary(c.v[s.lhs], s.operator, c.v[s.rhs]))
insert_not(c, s) == insert_instruction(c, s.name, Not(c.v[s.rhs]))
insert_truncate(c, s) ==
    insert_instruction(c, s.name, Truncate(c.v[s.value], s.bit_size, s.max_bit_size))
insert_cast(c, s) == insert_instruction(c, s.name, Cast(c.v[s.value], s.typ))
insert_call_to_bits(c, s) ==
    insert_instruction(c, s.name, CallToBits(c.v[s.argument], s.result_type))
insert_array_get(c, s) ==
    insert_instruction(c, s.name, ArrayGet(c.v[s.array], c.v[s.index], s.result_type))

\* dfg.constant
constant(c, name, k, typ) == [c EXCEPT !.v = Bind(@, name, NumericConstant(k, typ))]

\* The bit of rhs that round i of the square-and-multiply loop reads.
pow_bit_index_first(bit_size, i) == i - 1
pow_bit_index(bit_size, i) == bit_size - i

RECURSIVE pow(_, _, _, _)
RECURSIVE pow_loop(_, _, _, _)
RECURSIVE statements(_, _)

\* One statement of the Context.
statement(c, s) ==
    IF c.panic THEN c
    ELSE CASE s.stmt = "Binary" -> insert_binary(c, s)
           [] s.stmt = "Not" -> insert_not(c, s)
           [] s.stmt = "Truncate" -> insert_truncate(c, s)
           [] s.stmt = "Cast" -> insert_cast(c, s)
           [] s.stmt = "CallToBits" -> insert_call_to_bits(c, s)
           [] s.stmt = "ArrayGet" -> insert_array_get(c, s)
           [] s.stmt = "constant" -> constant(c, s.name, s.k, s.typ)
           [] s.stmt = "pow" -> pow(c, s.name, s.lhs, s.rhs)
           [] s.stmt = "copy" -> [c EXCEPT !.v = Bind(@, s.name, c.v[s.from])]

\* The statements ss one after the other: the first half, then the rest.
statements(c, ss) ==
    IF c.panic \/ ss = <<>> THEN c
    ELSE IF Len(ss) = 1 THEN statement(c, ss[1])
    ELSE statements(statements(c, SubSeq(ss, 1, Len(ss) \div 2)),
                    SubSeq(ss, Len(ss) \div 2 + 1, Len(ss)))

\* Context::pow, the loop `for i in 1..bit_size + 1` from round i on.
pow_loop(c, lhs, bit_size, i) ==
    IF c.panic \/ i > bit_size THEN c
    ELSE pow_loop(
             statements(c,
                 << LetBinary("r_squared", "r", "Mul", "r"),
                    LetBinary("a", "r_squared", "Mul", lhs),
                    LetConstant("idx", pow_bit_index(bit_size, i), NativeField),
                    LetArrayGet("b", "rhs_bits", "idx", BoolType),
                    LetNot("not_b", "b"),
                    LetCast("b", "b", NativeField),
                    LetCast("not_b", "not_b", NativeField),
                    LetBinary("r1", "a", "Mul", "b"),
                    LetBinary("r2", "r_squared", "Mul", "not_b"),
                    LetBinary("r", "r1", "Add", "r2") >>),
             lhs, bit_size, i + 1)

\* Context::pow: the variable `name` holds lhs^rhs.
pow(c, name, lhs, rhs) ==
    LET typ == type_of_value(c.dfg.instructions, c.dfg.params, c.v[rhs]) IN
    IF typ.kind = "Unsigned"
    THEN statements(
             pow_loop(
                 statements(c,
                     << LetCallToBits("rhs_bits", rhs,
                                      ArrayType(<<BoolType>>, typ.bit_size)),
                        LetConstant("r", 1, NativeField) >>),
                 lhs, typ.bit_size, 1),
             << LetCopy(name, "r") >>)
    ELSE panicked(c)

\* Context::insert_wrapping_shift_left, from `if max_bit <= bit_size` on.
shift_left_product(c, name, lhs, typ, bit_size, max_bit) ==
    IF max_bit <= bit_size
    THEN statements(c, << LetBinary(name, lhs, "Mul", "pow") >>)
    ELSE statements(c,
             << LetCast("lhs_field", lhs, NativeField),
                LetCast("pow_field", "pow", NativeField),
                LetBinary("result", "lhs_field", "Mul", "pow_field"),
                LetTruncate("result", "result", bit_size, max_bit),
                LetCast(name, "result", typ) >>)

\* Context::insert_wrapping_shift_left: the variable `name` holds the value
\* returned.
insert_wrapping_shift_left(c, name, lhs, rhs, bit_size) ==
    LET typ == type_of_value(c.dfg.instructions, c.dfg.params, c.v[lhs])
        rhs_constant == get_numeric_constant(c.dfg.replaced_values, c.v[rhs])
    IN IF rhs_constant # -1
       THEN LET bit_shift_size == as_u32(to_u128(rhs_constant))
                \* 2_u128.overflowing_pow(bit_shift_size)
                overflows == bit_shift_size >= U128Bits
                rhs_bit_size_pow_2 == Pow2(bit_shift_size) % Pow2(U128Bits)
                max_lhs_bits ==
                    get_value_max_num_bits(c.dfg.instructions, c.dfg.params, c.v[lhs])
                \* max_lhs_bits + bit_shift_size as u8, an addition of u8
                sum == max_lhs_bits + as_u8(bit_shift_size)
            IN IF overflows
               THEN IF bit_size < U128Bits
                    THEN constant(c, name, 0, typ)
                    ELSE panicked(c)
               ELSE IF sum >= U8Modulus /\ c.overflow_checks
               THEN panicked(c)
               ELSE shift_left_product(
                        constant(c, "pow", rhs_bit_size_pow_2 % FieldModulus, typ),
                        name, lhs, typ, bit_size, sum % U8Modulus)
       ELSE shift_left_product(
                statements(c,
                    << LetConstant("base", 2, NativeField),
                       LetConstant("bit_size_var", bit_size, Unsigned(U8Bits)),
                       LetBinary("overflow", rhs, "Lt", "bit_size_var"),
                       LetCast("predicate", "overflow", typ),
                       LetCast("rhs_unsigned", rhs, Unsigned(bit_size)),
                       LetPow("pow", "base", "rhs_unsigned"),
                       LetCast("pow", "pow", typ),
                       LetBinary("pow", "predicate", "Mul", "pow") >>),
                name, lhs, typ, bit_size, FieldMaxNumBits)

\* A shift right that forgets the sign of lhs.
insert_shift_right_unsigned_only(c, name, lhs, rhs, bit_size) ==
    statements(c,
        << LetConstant("base", 2, NativeField),
           LetPow("pow", "base", rhs),
           LetBinary(name, lhs, "Div", "pow") >>)

\* Context::insert_shift_right: the variable `name` holds the value
\* returned.
insert_shift_right(c, name, lhs, rhs, bit_size) ==
    LET lhs_typ == type_of_value(c.dfg.instructions, c.dfg.params, c.v[lhs]) IN
    IF lhs_typ.kind = "Unsigned"
    THEN statements(c,
             << LetConstant("base", 2, NativeField),
                LetPow("pow", "base", rhs),
                LetBinary(name, lhs, "Div", "pow") >>)
    ELSE statements(c,
             << LetConstant("base", 2, NativeField),
                LetPow("pow", "base", rhs),
                LetConstant("zero", 0, Signed(bit_size)),
                LetBinary("lhs_sign", lhs, "Lt", "zero"),
                LetCast("lhs_sign_as_field", "lhs_sign", NativeField),
                LetCast("lhs_as_field", lhs, NativeField),
                LetBinary("one_complement", "lhs_sign_as_field", "Add", "lhs_as_field"),
                LetTruncate("one_complement", "one_complement", bit_size, bit_size + 1),
                LetCast("one_complement", "one_complement", Signed(bit_size)),
                LetBinary("shifted_complement", "one_complement", "Div", "pow"),
                LetCast("lhs_sign_as_int", "lhs_sign", lhs_typ),
                LetBinary("shifted", "shifted_complement", "Sub", "lhs_sign_as_int"),
                LetTruncate(name, "shifted", bit_size, bit_size + 1) >>)

\* Context::remove_bit_shifts, the loop body on a shift:
\* `self.function.dfg.replace_value(old_result, new_result)`.
replace_old_result(c, old_result) ==
    IF c.panic THEN c
    ELSE [c EXCEPT !.dfg.replaced_values = replace_value(@, old_result, c.v["new_result"])]

\* Context::remove_bit_shifts, the loop body on the shift instruction_id.
lower_shift(c, instruction_id) ==
    LET ins == InstructionAt(c.dfg.instructions, instruction_id)
        typ == type_of_value(c.dfg.instructions, c.dfg.params, ins.lhs)
        operands == [c EXCEPT !.v = [lhs |-> ins.lhs, rhs |-> ins.rhs]]
    IN IF typ.kind \notin {"Signed", "Unsigned"} THEN panicked(c)
       ELSE replace_old_result(
                IF ins.operator = "Shl"
                THEN insert_wrapping_shift_left(operands, "new_result", "lhs", "rhs",
                                                typ.bit_size)
                ELSE insert_shift_right(operands, "new_result", "lhs", "rhs", typ.bit_size),
                InstructionResult(instruction_id))

(* ------------------------------------------------------------------ *)
(* State                                                                *)
(* ------------------------------------------------------------------ *)

VARIABLES
    instructions,      \* dfg.instructions
    block,             \* dfg.blocks[block].instructions
    params,            \* dfg.blocks[block].parameter_types
    replaced_values,   \* dfg.replaced_values
    env,               \* the values the block's parameters take when the code runs, or the machine that runs Brillig opcodes
    runtime,           \* the function's RuntimeType, "Acir" or "Brillig"
    pc,                \* where the operation under way stands
    call,              \* the operation under way and its arguments
    ret,               \* what the operation returned
    pending,           \* remove_bit_shifts: the instructions taken from the block, not yet visited; the opcodes a machine has still to run
    new_instructions,  \* Context.new_instructions
    slice_sizes,             \* ValueMerger.slice_sizes
    array_set_conditionals,  \* ValueMerger.array_set_conditionals
    blocks,            \* dfg.blocks of a function with several blocks
    storage,           \* DenseMap.storage, SparseMap.storage
    key_to_value,      \* TwoWayMap.key_to_value
    value_to_key,      \* TwoWayMap.value_to_key
    locations,         \* dfg.locations
    passes,            \* optimize_into_acir: the steps run so far, in order
    brillig_context,   \* BrilligContext: the opcodes emitted so far
    history            \* the calls made to a map so far, each with what it returned

\* The state of the flattening side tables, the multi-block function, the id
\* maps and the pass pipeline.
sideVars == <<slice_sizes, array_set_conditionals, blocks, storage, key_to_value,
              value_to_key, locations, passes, brillig_context, history>>

vars == <<instructions, block, params, replaced_values, env, runtime, pc, call, ret,
          pending, new_instructions, sideVars>>

\* The side tables, the maps and the pipeline before anything used them.
SideInit ==
    /\ slice_sizes = <<>>
    /\ array_set_conditionals = <<>>
    /\ blocks = <<>>
    /\ storage = <<>>
    /\ key_to_value = <<>>
    /\ value_to_key = <<>>
    /\ locations = <<>>
    /\ passes = <<>>
    /\ brillig_context = <<>>
    /\ history = <<>>

Dfg == [instructions |-> instructions, block |-> block, params |-> params,
        replaced_values |-> replaced_values]

(* ------------------------------------------------------------------ *)
(* Bit-shift lowering: the programs the pass is run on                  *)
(* ------------------------------------------------------------------ *)

U8Type == Unsigned(U8Bits)

IntegerTypes == {Unsigned(n) : n \in 1..MaxBitSize} \cup {Signed(n) : n \in 1..MaxBitSize}

\* The field elements a Field parameter is given.
FieldSamples == {0, 1, Pow2(MaxBitSize) - 1, Pow2(MaxBitSize), FieldModulus - 1}

ValuesOfType(typ) ==
    IF typ.kind = "NativeField" THEN FieldSamples ELSE 0..(Pow2(typ.bit_size) - 1)

RECURSIVE Envs(_)
Envs(parameter_types) ==
    IF parameter_types = <<>> THEN {<<>>}
    ELSE {<<h>> \o t : h \in ValuesOfType(Head(parameter_types)),
                       t \in Envs(Tail(parameter_types))}

\* The ways lhs is produced: a parameter, a constant, a Field narrowed to
\* the type (truncated, then cast) and a bool widened to it.
LhsSources(typ) ==
    {[params |-> <<typ>>, instructions |-> <<>>, lhs |-> Param(0)]}
    \cup {[params |-> <<>>, instructions |-> <<>>, lhs |-> NumericConstant(k, typ)] :
            k \in ValuesOfType(typ)}
    \cup {[params |-> <<NativeField>>,
           instructions |-> <<Truncate(Param(0), typ.bit_size, FieldMaxNumBits),
                              Cast(InstructionResult(0), typ)>>,
           lhs |-> InstructionResult(1)]}
    \cup {[params |-> <<BoolType>>, instructions |-> <<Cast(Param(0), typ)>>,
           lhs |-> InstructionResult(0)]}

\* The constant shift amounts: around the bit sizes, at the width of u128
\* and the largest u8.
RhsConstants == 0..(MaxBitSize + 1) \cup {U128Bits, U8Modulus - 1}

\* A block that computes lhs and shifts it by a constant or by a parameter.
ShiftPrograms ==
    {[params |-> IF dynamic THEN Append(s.params, U8Type) ELSE s.params,
      instructions |->
          Append(s.instructions,
                 Binary(s.lhs, operator,
                        IF dynamic THEN Param(Len(s.params)) ELSE NumericConstant(k, U8Type))),
      call |-> [op |-> "remove_bit_shifts", shift |-> Len(s.instructions)]] :
        s \in UNION {LhsSources(typ) : typ \in IntegerTypes},
        operator \in {"Shl", "Shr"},
        dynamic \in BOOLEAN,
        k \in RhsConstants}

\* pow(2, rhs) called on an unsigned parameter.
PowPrograms ==
    {[params |-> <<Unsigned(n)>>, instructions |-> <<>>,
      call |-> [op |-> "pow", rhs |-> Param(0)]] : n \in 1..MaxBitSize}

ShiftInit ==
    /\ SideInit
    /\ \E program \in ShiftPrograms \cup PowPrograms :
          /\ instructions = program.instructions
          /\ block = [i \in 1..Len(program.instructions) |-> i - 1]
          /\ params = program.params
          /\ call = program.call
          /\ env \in Envs(program.params)
          /\ runtime \in IF program.call.op = "pow" THEN {"Acir"} ELSE {"Acir", "Brillig"}
    /\ replaced_values = <<>>
    /\ pc = "start"
    /\ ret = NoValue
    /\ pending = <<>>
    /\ new_instructions = <<>>

(* ------------------------------------------------------------------ *)
(* Bit-shift lowering: the pass                                         *)
(* ------------------------------------------------------------------ *)

\* Function::remove_bit_shifts on a Brillig function: nothing is done.
RemoveBitShiftsBrillig ==
    /\ pc = "start" /\ call.op = "remove_bit_shifts" /\ runtime = "Brillig"
    /\ pc' = "done"
    /\ UNCHANGED <<sideVars, instructions, block, params, replaced_values, env, runtime, call, ret,
                   pending, new_instructions>>

\* Context::remove_bit_shifts: take_instructions.
TakeInstructions ==
    /\ pc = "start" /\ call.op = "remove_bit_shifts" /\ runtime = "Acir"
    /\ pending' = block
    /\ block' = <<>>
    /\ new_instructions' = <<>>
    /\ pc' = "loop"
    /\ UNCHANGED <<sideVars, instructions, params, replaced_values, env, runtime, call, ret>>

IsShift(ins) == ins.op = "Binary" /\ ins.operator \in {"Shl", "Shr"}

NewContext(overflow_checks) ==
    [dfg |-> Dfg, new_instructions |-> new_instructions, v |-> <<>>,
     panic |-> FALSE, overflow_checks |-> overflow_checks]

\* The loop body ended with the Context c.
ShiftLowered(c) ==
    IF c.panic
    THEN /\ pc' = "panic"
         /\ UNCHANGED <<instructions, block, replaced_values, pending, new_instructions>>
    ELSE /\ instructions' = c.dfg.instructions
         /\ block' = c.dfg.block
         /\ new_instructions' = c.new_instructions
         /\ replaced_values' = c.dfg.replaced_values
         /\ pending' = Tail(pending)
         /\ pc' = "loop"

\* Context::remove_bit_shifts: the loop body on a Shl or Shr.
LowerShift ==
    /\ pc = "loop" /\ pending # <<>>
    /\ IsShift(InstructionAt(instructions, Head(pending)))
    /\ \E overflow_checks \in BOOLEAN :
          ShiftLowered(lower_shift(NewContext(overflow_checks), Head(pending)))
    /\ UNCHANGED <<sideVars, params, env, runtime, call, ret>>

\* Context::remove_bit_shifts: the loop body on any other instruction.
KeepInstruction ==
    /\ pc = "loop" /\ pending # <<>>
    /\ ~IsShift(InstructionAt(instructions, Head(pending)))
    /\ new_instructions' = Append(new_instructions, Head(pending))
    /\ pending' = Tail(pending)
    /\ UNCHANGED <<sideVars, instructions, block, params, replaced_values, env, runtime, pc, call, ret>>

\* Context::remove_bit_shifts: the block gets the new instructions.
StoreNewInstructions ==
    /\ pc = "loop" /\ pending = <<>>
    /\ block' = new_instructions
    /\ new_instructions' = <<>>
    /\ pc' = "done"
    /\ UNCHANGED <<sideVars, instructions, params, replaced_values, env, runtime, call, ret, pending>>

\* pow ended with the Context c.
PowReturned(c) ==
    /\ instructions' = c.dfg.instructions
    /\ block' = c.dfg.block
    /\ new_instructions' = c.new_instructions
    /\ ret' = IF c.panic THEN NoValue ELSE c.v["result"]
    /\ pc' = IF c.panic THEN "panic" ELSE "done"

\* Context::pow(2, rhs) on its own.
PowCall ==
    /\ pc = "start" /\ call.op = "pow"
    /\ PowReturned(pow([NewContext(FALSE) EXCEPT
                            !.v = [base |-> NumericConstant(2, NativeField),
                                   rhs |-> call.rhs]],
                       "result", "base", "rhs"))
    /\ UNCHANGED <<sideVars, params, replaced_values, env, runtime, call, pending>>

ShiftNext ==
    \/ RemoveBitShiftsBrillig
    \/ TakeInstructions
    \/ LowerShift
    \/ KeepInstruction
    \/ StoreNewInstructions
    \/ PowCall

SpecShifts == ShiftInit /\ [][ShiftNext]_vars

(* ------------------------------------------------------------------ *)
(* Bit-shift lowering: properties                                       *)
(* ------------------------------------------------------------------ *)

\* The shift the pass was run on, its operand types and operand values.
TheShift == InstructionAt(instructions, call.shift)
ShiftLhsType == type_of_value(instructions, params, TheShift.lhs)
ShiftLhs == Eval(instructions, params, env, TheShift.lhs)
ShiftRhs == Eval(instructions, params, env, TheShift.rhs)

\* The value that stands for the shift's result once the pass has run.
ShiftResult ==
    Eval(instructions, params, env,
         resolve(replaced_values, InstructionResult(call.shift)))

\* The pass ran on an ACIR function holding `operator` with a shift amount
\* below the bit size of lhs.
ShiftCase(operator) ==
    /\ call.op = "remove_bit_shifts" /\ runtime = "Acir"
    /\ TheShift.operator = operator
    /\ ShiftRhs < ShiftLhsType.bit_size

\* floor(x / 2^r) of a u-bit two's complement pattern, as a pattern.
ArithmeticShiftRight(v, r, n) == FromSigned(ToSigned(v, n) \div Pow2(r), n)

\* C1: for every unsigned lhs of bit size u and every shift amount r < u,
\* constant or dynamic, the sequence substituted for Shl(lhs, r) is produced
\* and evaluates to (lhs * 2^r) mod 2^u.
C1_ShlIsWrappingProduct ==
    (ShiftCase("Shl") /\ ShiftLhsType.kind = "Unsigned") =>
        /\ pc # "panic"
        /\ pc = "done" =>
              ShiftResult = (ShiftLhs * Pow2(ShiftRhs)) % Pow2(ShiftLhsType.bit_size)

\* C2: for every shift amount r < u the sequence substituted for Shr(lhs, r)
\* evaluates to floor(lhs / 2^r) for an unsigned u-bit lhs and to the
\* arithmetic shift (floor(lhs / 2^r) of the signed value) for a signed one.
C2_ShrIsFloorDivision ==
    (ShiftCase("Shr") /\ pc \in {"done", "panic"}) =>
        /\ pc = "done"
        /\ ShiftResult =
              IF ShiftLhsType.kind = "Unsigned" THEN ShiftLhs \div Pow2(ShiftRhs)
              ELSE ArithmeticShiftRight(ShiftLhs, ShiftRhs, ShiftLhsType.bit_size)

\* A negative signed lhs with a set low bit was shifted right by r >= 1.
C2_Witness ==
    /\ ShiftCase("Shr") /\ pc = "done"
    /\ ShiftLhsType.kind = "Signed"
    /\ ShiftLhs >= Pow2(ShiftLhsType.bit_size - 1)
    /\ ShiftLhs % 2 = 1
    /\ ShiftRhs >= 1
    /\ TheShift.rhs.tag = "Param"

RECURSIVE FieldPow2(_)
\* 2^e in the field: a product of e factors 2, multiplied half by half.
FieldPow2(e) ==
    IF e = 0 THEN 1
    ELSE IF e = 1 THEN 2
    ELSE FieldMul(FieldPow2(e \div 2), FieldPow2(e - e \div 2))

\* C8: for every unsigned rhs of bit size n, the value pow(2, rhs) computes
\* by square-and-multiply over the n bits of rhs, without control flow,
\* is 2^rhs in the field.
C8_PowIsTwoToTheRhs ==
    (call.op = "pow" /\ pc \in {"done", "panic"}) =>
        /\ pc = "done"
        /\ Eval(instructions, params, env, ret) = FieldPow2(env[1])
        /\ \A i \in 1..Len(instructions) : instructions[i].op # "JmpIf"

\* pow ran on the largest rhs of the widest type: every bit is set, and
\* 2^rhs exceeds the modulus.
C8_Witness ==
    /\ call.op = "pow" /\ pc = "done"
    /\ params[1].bit_size = MaxBitSize
    /\ env[1] = Pow2(MaxBitSize) - 1
    /\ Len(instructions) = 1 + 9 * MaxBitSize

(* ------------------------------------------------------------------ *)
(* Value forwarding: replace_value and resolve                          *)
(* ------------------------------------------------------------------ *)

RECURSIVE Chase(_, _, _)
\* The value reached from `value` after at most n forwarding steps.
Chase(replaced, value, n) ==
    IF n = 0 \/ value \notin DOMAIN replaced THEN value
    ELSE Chase(replaced, replaced[value], n - 1)

\* resolve(value) recurses for ever: the chain from value is still inside
\* the map after as many steps as the map has entries, so it is on a cycle.
Diverges(replaced, value) ==
    Chase(replaced, value, Cardinality(DOMAIN replaced)) \in DOMAIN replaced

\* The values of the graph: its parameters and instruction results.
GraphValues ==
    {Param(i) : i \in 0..(Len(params) - 1)}
    \cup {InstructionResult(i) : i \in 0..(Len(instructions) - 1)}

ForwardInit ==
    /\ SideInit
    /\ instructions = <<>>
    /\ block = <<>>
    /\ params = [i \in 1..NumValues |-> NativeField]
    /\ replaced_values = <<>>
    /\ env = <<>>
    /\ runtime = "Acir"
    /\ pc = "ready"
    /\ call = [op |-> "none"]
    /\ ret = NoValue
    /\ pending = <<>>
    /\ new_instructions = <<>>

\* DataFlowGraph::replace_value(value_to_replace, new_value), with any two
\* values of the graph.  The call does not return when resolve(new_value)
\* recurses for ever.
ReplaceValue ==
    /\ pc = "ready"
    /\ \E value_to_replace \in GraphValues, new_value \in GraphValues :
          /\ call' = [op |-> "replace_value", value_to_replace |-> value_to_replace,
                      new_value |-> new_value]
          /\ IF value_to_replace # new_value /\ Diverges(replaced_values, new_value)
             THEN pc' = "diverged" /\ UNCHANGED replaced_values
             ELSE /\ replaced_values' =
                        replace_value(replaced_values, value_to_replace, new_value)
                  /\ pc' = "ready"
    /\ UNCHANGED <<sideVars, instructions, block, params, env, runtime, ret, pending, new_instructions>>

\* DataFlowGraph::resolve(value), with any value of the graph.
ResolveValue ==
    /\ pc = "ready"
    /\ \E value \in GraphValues :
          /\ call' = [op |-> "resolve", value |-> value]
          /\ IF Diverges(replaced_values, value)
             THEN pc' = "diverged" /\ UNCHANGED ret
             ELSE ret' = resolve(replaced_values, value) /\ pc' = "resolved"
    /\ UNCHANGED <<sideVars, instructions, block, params, replaced_values, env, runtime, pending,
                   new_instructions>>

ForwardNext == ReplaceValue \/ ResolveValue

SpecForward == ForwardInit /\ [][ForwardNext]_vars

\* C4: after any sequence of replace_value calls the forwarding map is
\* acyclic (no value is forwarded to itself or to a value that forwards
\* back to it), so no resolve fails to return.
C4_ForwardingStaysAcyclic ==
    /\ pc # "diverged"
    /\ \A value \in DOMAIN replaced_values : ~Diverges(replaced_values, value)

\* C5: a resolve that returns, returns a value with no forwarding entry,
\* which resolves to itself; and while the map has no cycle,
\* resolve(resolve(v)) = resolve(v) for every value v.
C5_ResolveIsFixedPoint ==
    /\ pc = "resolved" =>
          /\ ret \notin DOMAIN replaced_values
          /\ resolve(replaced_values, ret) = ret
    /\ (\A v \in GraphValues : ~Diverges(replaced_values, v)) =>
          \A v \in GraphValues :
              /\ resolve(replaced_values, v) \notin DOMAIN replaced_values
              /\ resolve(replaced_values, resolve(replaced_values, v))
                    = resolve(replaced_values, v)

\* resolve went through a chain of two forwarding entries.
C5_Witness ==
    /\ pc = "resolved"
    /\ call.value \in DOMAIN replaced_values
    /\ replaced_values[call.value] \in DOMAIN replaced_values
    /\ ret # replaced_values[call.value]

(* ------------------------------------------------------------------ *)
(* Casts: inserting Cast(value, typ) into a graph                       *)
(* ------------------------------------------------------------------ *)

NumericTypes == {NativeField} \cup IntegerTypes

NoType == [kind |-> "None"]

\* A numeric type other than typ.
OtherType(typ) == IF typ = NativeField THEN Unsigned(MaxBitSize) ELSE NativeField

\* A block with two parameters of type typ and one of another type, a sum of
\* type typ and a cast to typ.
CastProgram(typ) ==
    [params |-> <<typ, typ, OtherType(typ)>>,
     instructions |-> <<Binary(Param(0), "Add", Param(1)), Cast(Param(2), typ)>>]

\* The forwarding maps of a block whose first parameter was replaced, or
\* not, by another value of its type.
ForwardingMaps(typ) ==
    {<<>>} \cup
    {replace_value(<<>>, Param(0), new_value) :
        new_value \in {Param(1), InstructionResult(0), InstructionResult(1),
                       NumericConstant(1, typ)}}

CastInit ==
    /\ SideInit
    /\ \E typ \in NumericTypes :
          /\ instructions = CastProgram(typ).instructions
          /\ params = CastProgram(typ).params
          /\ replaced_values \in ForwardingMaps(typ)
    /\ block = <<0, 1>>
    /\ env = <<>>
    /\ runtime = "Acir"
    /\ pc = "ready"
    /\ call = [op |-> "none", depth |-> 0]
    /\ ret = NoValue
    /\ pending = <<>>
    /\ new_instructions = <<>>

\* The values a first cast is given: the values of the graph and the
\* constants of the first parameter's type.
CastValues ==
    GraphValues \cup {NumericConstant(k, params[1]) : k \in ValuesOfType(params[1])}

\* dfg.insert_instruction_and_results(Cast(value, typ)), on a value of the
\* graph or a constant and then on the result of that cast.
InsertCast ==
    /\ pc \in {"ready", "cast"}
    /\ call.depth < 2
    /\ \E value \in (IF pc = "ready" THEN CastValues ELSE {ret}), typ \in NumericTypes :
          LET r == insert_instruction_and_results(Dfg, Cast(value, typ)) IN
          /\ instructions' = r.dfg.instructions
          /\ block' = r.dfg.block
          /\ ret' = first(r.result)
          /\ call' = [op |-> "cast", depth |-> call.depth + 1,
                      value |-> value, typ |-> typ,
                      origin |-> IF pc = "ready" THEN value ELSE call.origin,
                      via |-> IF pc = "ready" THEN NoType ELSE call.typ,
                      kind |-> r.result.kind,
                      before |-> Len(instructions)]
    /\ pc' = "cast"
    /\ UNCHANGED <<sideVars, params, replaced_values, env, runtime, pending, new_instructions>>

CastNext == InsertCast

SpecCast == CastInit /\ [][CastNext]_vars

\* The cast was left as an instruction: `instruction` was appended to the
\* arena and the block, and its result returned.
CastKept(instruction) ==
    /\ call.kind = "Results"
    /\ Len(instructions) = call.before + 1
    /\ instructions[Len(instructions)] = instruction
    /\ block[Len(block)] = call.before
    /\ ret = InstructionResult(call.before)

\* The cast was simplified to `value`: nothing was inserted.
CastSimplifiedTo(value) ==
    /\ call.kind = "SimplifiedTo"
    /\ ret = value
    /\ Len(instructions) = call.before
    /\ Len(block) = call.before

CastOperand == resolve(replaced_values, call.value)

\* C6: a cast of a constant k to typ is simplified to k itself (typ Field),
\* to k mod 2^bit tagged typ (typ Unsigned), to k tagged typ when
\* k < 2^(bit-1) (typ Signed) and is kept as a Cast otherwise; and a cast to
\* an unsigned type gives the same constant after a cast to Field as without.
C6_CastOfConstant ==
    /\ (pc = "cast" /\ CastOperand.tag = "NumericConstant") =>
          LET k == CastOperand.constant IN
          CASE call.typ.kind = "NativeField" ->
                  /\ CastSimplifiedTo(NumericConstant(k, NativeField))
                  /\ CastOperand.typ = NativeField => ret = CastOperand
            [] call.typ.kind = "Unsigned" ->
                  CastSimplifiedTo(NumericConstant(k % Pow2(call.typ.bit_size), call.typ))
            [] call.typ.kind = "Signed" ->
                  IF k < Pow2(call.typ.bit_size - 1)
                  THEN CastSimplifiedTo(NumericConstant(k, call.typ))
                  ELSE CastKept(Cast(call.value, call.typ))
    /\ (/\ pc = "cast" /\ call.depth = 2 /\ call.via = NativeField
        /\ call.typ.kind = "Unsigned"
        /\ resolve(replaced_values, call.origin).tag = "NumericConstant") =>
          /\ ret = first(insert_instruction_and_results(
                             Dfg, Cast(call.origin, call.typ)).result)
          /\ ret = NumericConstant(
                       resolve(replaced_values, call.origin).constant
                           % Pow2(call.typ.bit_size), call.typ)

\* A constant with its top bit set was cast to a narrower unsigned type by
\* way of Field.
C6_Witness ==
    /\ pc = "cast" /\ call.depth = 2 /\ call.via = NativeField
    /\ call.origin.tag = "NumericConstant"
    /\ call.origin.typ.kind = "Signed"
    /\ call.typ.kind = "Unsigned"
    /\ call.typ.bit_size < call.origin.typ.bit_size
    /\ call.origin.constant >= Pow2(call.origin.typ.bit_size - 1)
    /\ ret.constant # call.origin.constant

CastToOwnType ==
    /\ pc = "cast" /\ call.depth = 1
    /\ type_of_value(instructions, params, call.value) = call.typ

\* C7 as stated: a cast of a value to the type it already has returns that
\* value (the value it was replaced by, if it was) and keeps no Cast
\* instruction.
C7_CastToOwnTypeReturnsValue ==
    CastToOwnType => (CastSimplifiedTo(call.value) \/ CastSimplifiedTo(CastOperand))

IsCastResult(value) ==
    /\ value.tag = "Instruction"
    /\ InstructionAt(instructions, value.instruction).op = "Cast"

\* C7, amended: a cast of x to the type it already has returns resolve(x)
\* and keeps no Cast, unless resolve(x) is the result of a Cast (then a
\* Cast of that cast's operand is inserted) or a Signed constant of
\* 2^(bit-1) or more (then the Cast is inserted as it is).
C7_CastToOwnTypeReturnsResolved ==
    CastToOwnType =>
        IF IsCastResult(CastOperand)
        THEN CastKept(Cast(InstructionAt(instructions, CastOperand.instruction).value,
                           call.typ))
        ELSE IF /\ CastOperand.tag = "NumericConstant"
                /\ call.typ.kind = "Signed"
                /\ CastOperand.constant >= Pow2(call.typ.bit_size - 1)
        THEN CastKept(Cast(call.value, call.typ))
        ELSE CastSimplifiedTo(CastOperand)

\* A forwarded parameter was cast to its own type and the value it was
\* replaced by came back.
C7_Witness ==
    /\ CastToOwnType
    /\ call.value \in DOMAIN replaced_values
    /\ call.kind = "SimplifiedTo"
    /\ ret # call.value

(* ------------------------------------------------------------------ *)
(* Merging the two values of a conditional                              *)
(* ------------------------------------------------------------------ *)

\* An array of two (Field, bool) pairs.
PairArrayType == ArrayType(<<NativeField, BoolType>>, 2)

MergeTypes == NumericTypes \cup {ReferenceType, FunctionType, PairArrayType}

\* The values a parameter of the type is given: the ends and the middle of
\* an integer type, small and large field elements, two arrays; a reference
\* or a function has no numeric value.
MergeSamples(typ) ==
    CASE typ.kind = "NativeField" -> {0, 1, Pow2(MaxBitSize), FieldModulus - 1}
      [] typ.kind \in {"Unsigned", "Signed"} ->
            {0, 1, Pow2(typ.bit_size - 1), Pow2(typ.bit_size) - 1}
      [] typ.kind = "Array" -> {<<0, 0, 0, 0>>, <<5, 1, FieldModulus - 1, 0>>}
      [] OTHER -> {0}

\* A block with a condition c and two values of type typ, which computes
\* the condition !c of the other branch.
MergeProgram(typ) ==
    [params |-> <<BoolType, typ, typ>>, instructions |-> <<Not(Param(0))>>]

MergeInit ==
    /\ SideInit
    /\ \E typ \in MergeTypes :
          /\ instructions = MergeProgram(typ).instructions
          /\ params = MergeProgram(typ).params
          /\ env \in {<<c, a, b>> : c \in 0..1, a \in MergeSamples(typ),
                                    b \in MergeSamples(typ)}
    /\ replaced_values \in {<<>>, replace_value(<<>>, Param(1), Param(2))}
    /\ block = <<0>>
    /\ runtime = "Acir"
    /\ pc = "ready"
    /\ call = [op |-> "none"]
    /\ ret = NoValue
    /\ pending = <<>>
    /\ new_instructions = <<>>

\* The conditions of the two branches.
Conditions == {Param(0), InstructionResult(0)}

\* The values merged: the two parameters, and the constants or functions of
\* their type.
MergeOperands ==
    {Param(1), Param(2)}
    \cup (IF IsNumeric(params[2])
          THEN {NumericConstant(0, params[2]),
                NumericConstant(Pow2(bit_size_of(params[2]) - 1), params[2])}
          ELSE {})
    \cup (IF params[2] = FunctionType THEN {FunctionValue(0), FunctionValue(1)} ELSE {})

NewMerger == [dfg |-> Dfg, current_condition |-> NoValue, v |-> <<>>, value |-> NoValue,
              panic |-> FALSE, slice_sizes |-> slice_sizes,
              array_set_conditionals |-> array_set_conditionals]

\* The call returned r: the graph afterwards, the value and whether it
\* panicked.
MergeReturned(r) ==
    /\ instructions' = r.dfg.instructions
    /\ block' = r.dfg.block
    /\ ret' = r.value
    /\ pc' = IF r.panic THEN "panic" ELSE "merged"

\* ValueMerger::merge_values on a merger made for the block.
MergeValues ==
    /\ pc = "ready"
    /\ \E then_condition \in Conditions, else_condition \in Conditions,
          then_value \in MergeOperands, else_value \in MergeOperands :
          /\ call' = [op |-> "merge_values",
                      then_condition |-> then_condition,
                      else_condition |-> else_condition,
                      then_value |-> then_value, else_value |-> else_value,
                      before |-> Len(instructions)]
          /\ MergeReturned(merge_values(NewMerger, then_condition, else_condition,
                                        then_value, else_value))
    /\ UNCHANGED <<sideVars, params, replaced_values, env, runtime, pending, new_instructions>>

\* ValueMerger::merge_numeric_values, called on the graph.
MergeNumericValues ==
    /\ pc = "ready"
    /\ \E then_condition \in Conditions, else_condition \in Conditions,
          then_value \in MergeOperands, else_value \in MergeOperands :
          /\ call' = [op |-> "merge_numeric_values",
                      then_condition |-> then_condition,
                      else_condition |-> else_condition,
                      then_value |-> then_value, else_value |-> else_value,
                      before |-> Len(instructions)]
          /\ MergeReturned(merge_numeric_values(Dfg, then_condition, else_condition,
                                                then_value, else_value))
    /\ UNCHANGED <<sideVars, params, replaced_values, env, runtime, pending, new_instructions>>

MergeNext == MergeValues \/ MergeNumericValues

SpecMerge == MergeInit /\ [][MergeNext]_vars

\* The values the call merged: merge_values resolves its two values.
MergedThen ==
    IF call.op = "merge_values" THEN resolve(replaced_values, call.then_value)
    ELSE call.then_value
MergedElse ==
    IF call.op = "merge_values" THEN resolve(replaced_values, call.else_value)
    ELSE call.else_value

MergedType == type_of_value(instructions, params, MergedThen)

MergeCalled == call.op \in {"merge_values", "merge_numeric_values"}

\* C3: for two values of one numeric type and conditions with
\* else_condition = !then_condition, the merged value is then_value when
\* the condition is 1 and else_value when it is 0, and it fits the bit
\* size of the type.
C3_MergedValueSelects ==
    (/\ MergeCalled
     /\ IsNumeric(MergedType)
     /\ Eval(instructions, params, env, call.else_condition)
            = 1 - Eval(instructions, params, env, call.then_condition)) =>
        /\ pc = "merged"
        /\ Eval(instructions, params, env, ret) =
              IF Eval(instructions, params, env, call.then_condition) = 1
              THEN Eval(instructions, params, env, MergedThen)
              ELSE Eval(instructions, params, env, MergedElse)
        /\ num_bits(Eval(instructions, params, env, ret)) <= bit_size_of(MergedType)

\* Two different values, both the largest of their type, were merged by the
\* five instructions, with the else branch taken.
C3_Witness ==
    /\ call.op = "merge_numeric_values"
    /\ pc = "merged"
    /\ MergedType.kind = "Unsigned"
    /\ MergedType.bit_size = MaxBitSize
    /\ call.then_condition = Param(0)
    /\ call.else_condition = InstructionResult(0)
    /\ call.then_value = Param(1) /\ call.else_value = Param(2)
    /\ env = <<0, Pow2(MaxBitSize) - 1, Pow2(MaxBitSize) - 1>>
    /\ Len(instructions) = call.before + 5

MergeOfOneValue ==
    /\ call.op = "merge_values"
    /\ resolve(replaced_values, call.then_value) = resolve(replaced_values, call.else_value)

MergeOfReferences ==
    /\ call.op = "merge_values"
    /\ type_of_value(instructions, params, call.then_value).kind \in {"Reference", "Function"}
    /\ type_of_value(instructions, params, call.else_value).kind \in {"Reference", "Function"}

ArrayLength == 3
MaxArraySets == 3

ChangedArrayType == ArrayType(<<NativeField>>, ArrayLength)

\* The arrays of a block of ArraySets: the parameter and every result.
ArraysOf(sets) == {Param(0)} \cup {InstructionResult(i - 1) : i \in 1..Len(sets)}

\* The ArraySet an earlier array can be extended by: index 0 or 1 gets the
\* constant that numbers the instruction.
NextArraySets(sets) ==
    {ArraySet(array, NumericConstant(index, Unsigned(U32Bits)),
              NumericConstant(Len(sets) + 1, NativeField)) :
         array \in ArraysOf(sets), index \in 0..1}

RECURSIVE ArraySetBlocks(_)
\* The blocks of n ArraySets, each applied to the parameter or to the
\* result of an earlier one.
ArraySetBlocks(n) ==
    IF n = 0 THEN {<<>>}
    ELSE UNION {{Append(sets, ins) : ins \in NextArraySets(sets)} :
                    sets \in ArraySetBlocks(n - 1)}

\* A block of ArraySets on the array Param(0), in a branch whose condition
\* is Param(1) or Param(2); Param(3) is the outer condition.
ChangedInit ==
    /\ \E n \in 1..MaxArraySets : instructions \in ArraySetBlocks(n)
    /\ block = [i \in 1..Len(instructions) |-> i - 1]
    /\ params = <<ChangedArrayType, BoolType, BoolType, BoolType>>
    /\ \E condition \in {Param(1), Param(2)} :
          array_set_conditionals =
              [value \in {InstructionResult(i - 1) : i \in 1..Len(instructions)} |->
                  condition]
    /\ replaced_values = <<>>
    /\ env = <<>>
    /\ runtime = "Acir"
    /\ pc = "ready"
    /\ call = [op |-> "none"]
    /\ ret = NoValue
    /\ pending = <<>>
    /\ new_instructions = <<>>
    /\ slice_sizes = <<>>
    /\ blocks = <<>>
    /\ storage = <<>>
    /\ key_to_value = <<>>
    /\ value_to_key = <<>>
    /\ locations = <<>>
    /\ passes = <<>>
    /\ brillig_context = <<>>
    /\ history = <<>>

\* The merger returned r.
ChangedReturned(r) ==
    /\ instructions' = r.dfg.instructions
    /\ block' = r.dfg.block
    /\ array_set_conditionals' = r.array_set_conditionals
    /\ ret' = r.value
    /\ pc' = IF r.panic THEN "panic" ELSE "merged"

\* ValueMerger::try_merge_only_changed_indices on two different arrays of
\* the block, by a merger with or without a current condition.
TryMergeOnlyChangedIndices ==
    /\ pc = "ready"
    /\ \E then_value \in ArraysOf(instructions), else_value \in ArraysOf(instructions),
          current_condition \in {NoValue, Param(3)} :
          /\ then_value # else_value
          /\ call' = [op |-> "try_merge_only_changed_indices",
                      then_condition |-> Param(1), else_condition |-> Param(2),
                      then_value |-> then_value, else_value |-> else_value,
                      current_condition |-> current_condition,
                      before |-> Len(instructions)]
          /\ ChangedReturned(try_merge_only_changed_indices(
                 [NewMerger EXCEPT !.current_condition = current_condition],
                 Param(1), Param(2), then_value, else_value, ArrayLength))
    /\ UNCHANGED <<params, replaced_values, env, runtime, pending, new_instructions,
                   slice_sizes, blocks, storage, key_to_value, value_to_key, locations, passes,
                   brillig_context, history>>

\* ValueMerger::merge_values on two arrays of the block.
MergeChangedArrays ==
    /\ pc = "ready"
    /\ \E then_value \in ArraysOf(instructions), else_value \in ArraysOf(instructions) :
          /\ call' = [op |-> "merge_values",
                      then_condition |-> Param(1), else_condition |-> Param(2),
                      then_value |-> then_value, else_value |-> else_value,
                      current_condition |-> Param(3),
                      before |-> Len(instructions)]
          /\ ChangedReturned(merge_values(
                 [NewMerger EXCEPT !.current_condition = Param(3)],
                 Param(1), Param(2), then_value, else_value))
    /\ UNCHANGED <<params, replaced_values, env, runtime, pending, new_instructions,
                   slice_sizes, blocks, storage, key_to_value, value_to_key, locations, passes,
                   brillig_context, history>>

ChangedNext == TryMergeOnlyChangedIndices \/ MergeChangedArrays

SpecChanged == ChangedInit /\ [][ChangedNext]_vars

IsArraySet(value) ==
    /\ value.tag = "Instruction"
    /\ InstructionAt(instructions, value.instruction).op = "ArraySet"

RECURSIVE WalkBack(_, _)
\* The arrays met walking back from `value` through at most n ArraySets,
\* `value` first.
WalkBack(value, n) ==
    IF n = 0 \/ ~IsArraySet(value) THEN <<value>>
    ELSE <<value>> \o WalkBack(InstructionAt(instructions, value.instruction).array, n - 1)

\* The pairs <<i, j>> of hops after which the two sides of the call are at
\* one array, within 2 hops on each side.
CommonAncestors ==
    {hops \in (0..2) \X (0..2) :
        /\ hops[1] < Len(WalkBack(call.then_value, 2))
        /\ hops[2] < Len(WalkBack(call.else_value, 2))
        /\ WalkBack(call.then_value, 2)[hops[1] + 1]
               = WalkBack(call.else_value, 2)[hops[2] + 1]}

\* The nearest common ancestor.
NearestAncestor ==
    CHOOSE hops \in CommonAncestors :
        \A other \in CommonAncestors : hops[1] + hops[2] <= other[1] + other[2]

\* The indices the ArraySets between a side and the nearest common ancestor
\* write to.
IndicesSet(value, hops) ==
    {InstructionAt(instructions, WalkBack(value, 2)[i].instruction).index : i \in 1..hops}
ModifiedIndices ==
    IndicesSet(call.then_value, NearestAncestor[1])
        \cup IndicesSet(call.else_value, NearestAncestor[2])

\* How many of the instructions the call inserted have the opcode op.
Emitted(op) ==
    Cardinality({i \in (call.before + 1)..Len(instructions) : instructions[i].op = op})

ChangedCalled ==
    /\ pc = "merged"
    /\ call.op = "try_merge_only_changed_indices"
    /\ call.current_condition # NoValue

\* C11: with a current condition set and a common ancestor within 2
\* ArraySets of both arrays, try_merge_only_changed_indices returns an
\* array when the indices modified on the two chains are fewer than the
\* array length, and it inserts one ArraySet and two ArrayGets for each of
\* them.
C11_CommonAncestorMergesChangedIndices ==
    (/\ ChangedCalled
     /\ CommonAncestors # {}
     /\ Cardinality(ModifiedIndices) < ArrayLength) =>
        /\ ret # NoValue
        /\ Emitted("ArraySet") = Cardinality(ModifiedIndices)
        /\ Emitted("ArrayGet") = 2 * Cardinality(ModifiedIndices)

\* C11, where the code does merge the changed index: one array is a single
\* ArraySet applied to the other one.
C11_Witness ==
    /\ ChangedCalled
    /\ ret # NoValue
    /\ Emitted("ArraySet") = 1

(* ------------------------------------------------------------------ *)
(* Merging slices                                                       *)
(* ------------------------------------------------------------------ *)

\* The longest slice merged.
MaxSliceLength == 3

SliceElementTypes ==
    {<<NativeField>>, <<Unsigned(MaxBitSize), NativeField>>,
     <<ArrayType(<<NativeField>>, 2)>>}

\* A non-zero element of the type, chosen by x.
SliceSample(typ, x) ==
    IF IsNumeric(typ) THEN 1 + (x % 3)
    ELSE [j \in 1..(typ.length * Len(typ.element_types)) |-> 1 + ((x + j) % 3)]

\* The flattened contents of a slice of len items.
SliceContents(element_types, len, x) ==
    [k \in 1..(len * Len(element_types)) |->
        SliceSample(element_types[((k - 1) % Len(element_types)) + 1], x + k)]

AllNumeric(element_types) == \A i \in 1..Len(element_types) : IsNumeric(element_types[i])

\* The constant slice of len items, for numeric element types.
ConstantSlice(element_types, len) ==
    MakeArray([k \in 1..(len * Len(element_types)) |->
                  NumericConstant(SliceContents(element_types, len, 2)[k],
                                  element_types[((k - 1) % Len(element_types)) + 1])],
              SliceType(element_types))

\* A block with a condition c and two slices v1 and v2 whose lengths
\* slice_sizes holds; it computes the condition !c of the other branch and
\* may make a constant slice, which has no entry in slice_sizes.
SliceInit ==
    /\ \E element_types \in SliceElementTypes, then_len \in 0..MaxSliceLength,
          else_len \in 0..MaxSliceLength, c \in 0..1, constant_len \in 0..MaxSliceLength :
          /\ params = <<BoolType, SliceType(element_types), SliceType(element_types)>>
          /\ instructions \in
                {<<Not(Param(0))>>}
                \cup (IF AllNumeric(element_types) /\ constant_len = else_len
                      THEN {<<Not(Param(0)), ConstantSlice(element_types, constant_len)>>}
                      ELSE {})
          /\ slice_sizes = (Param(1) :> then_len) @@ (Param(2) :> else_len)
          /\ env = <<c, SliceContents(element_types, then_len, 0),
                     SliceContents(element_types, else_len, 1)>>
    /\ block = [i \in 1..Len(instructions) |-> i - 1]
    /\ replaced_values = <<>>
    /\ runtime = "Acir"
    /\ pc = "ready"
    /\ call = [op |-> "none"]
    /\ ret = NoValue
    /\ pending = <<>>
    /\ new_instructions = <<>>
    /\ array_set_conditionals = <<>>
    /\ blocks = <<>>
    /\ storage = <<>>
    /\ key_to_value = <<>>
    /\ value_to_key = <<>>
    /\ locations = <<>>
    /\ passes = <<>>
    /\ brillig_context = <<>>
    /\ history = <<>>

\* The slices of the block.
SliceOperands ==
    {Param(1), Param(2)} \cup {InstructionResult(i - 1) : i \in 2..Len(instructions)}

\* ValueMerger::merge_slice_values on two different slices of the block.
MergeSliceValues ==
    /\ pc = "ready"
    /\ \E then_value \in SliceOperands, else_value \in SliceOperands :
          /\ then_value # else_value
          /\ call' = [op |-> "merge_slice_values",
                      then_condition |-> Param(0), else_condition |-> InstructionResult(0),
                      then_value |-> then_value, else_value |-> else_value,
                      before |-> Len(instructions)]
          /\ MergeReturned(merge_slice_values(NewMerger, params[2], Param(0),
                                              InstructionResult(0), then_value, else_value))
    /\ UNCHANGED <<sideVars, params, replaced_values, env, runtime, pending,
                   new_instructions>>

\* ValueMerger::merge_values on two slices of the block.
MergeSlices ==
    /\ pc = "ready"
    /\ \E then_value \in SliceOperands, else_value \in SliceOperands :
          /\ call' = [op |-> "merge_values",
                      then_condition |-> Param(0), else_condition |-> InstructionResult(0),
                      then_value |-> then_value, else_value |-> else_value,
                      before |-> Len(instructions)]
          /\ MergeReturned(merge_values(NewMerger, Param(0), InstructionResult(0),
                                        then_value, else_value))
    /\ UNCHANGED <<sideVars, params, replaced_values, env, runtime, pending,
                   new_instructions>>

SliceNext == MergeSliceValues \/ MergeSlices

SpecSlices == SliceInit /\ [][SliceNext]_vars

SliceCalled == pc = "merged" /\ call.op = "merge_slice_values"

SliceElementCount == Len(params[2].element_types)

\* The length of a slice of the call: its slice_sizes entry, else the
\* length of the constant that made it.
SliceLengthOf(value) ==
    IF value \in DOMAIN slice_sizes THEN slice_sizes[value]
    ELSE Len(InstructionAt(instructions, value.instruction).elements)
             \div SliceElementCount

LongerLength ==
    IF SliceLengthOf(call.then_value) >= SliceLengthOf(call.else_value)
    THEN SliceLengthOf(call.then_value) ELSE SliceLengthOf(call.else_value)

\* The zero of the shape of the type.
ZeroOf(typ) ==
    IF IsNumeric(typ) THEN 0 ELSE [j \in 1..(typ.length * Len(typ.element_types)) |-> 0]

SliceElementType(k) == params[2].element_types[(k % SliceElementCount) + 1]

\* The call inserted an ArrayGet that reads position k of `array`.
ReadsPosition(array, k) ==
    \E i \in (call.before + 1)..Len(instructions) :
        /\ instructions[i].op = "ArrayGet"
        /\ instructions[i].array = array
        /\ instructions[i].index = NumericConstant(k, NativeField)

\* At position k, which is beyond the slice `short`, the merged element is
\* the element of the slice `long` when long_condition holds and the zero
\* of its type when not, and `short` is not read there.
PaddedAt(k, short, long, long_condition) ==
    (k >= SliceLengthOf(short) * SliceElementCount) =>
        /\ ~ReadsPosition(short, k)
        /\ Eval(instructions, params, env,
                InstructionAt(instructions, ret.instruction).elements[k + 1])
             = IF Eval(instructions, params, env, long_condition) = 1
               THEN Eval(instructions, params, env, long)[k + 1]
               ELSE ZeroOf(SliceElementType(k))

\* C12: merge_slice_values returns a MakeArray of max(then_len, else_len) *
\* |element_types| elements; at every flattened position at or beyond the
\* length of one side, that side is not read and gives the zero of the
\* element type, so the merged element is the element of the longer side
\* when its condition holds and zero when not.
C12_MergedSliceIsPaddedToLonger ==
    SliceCalled =>
        /\ ret.tag = "Instruction"
        /\ InstructionAt(instructions, ret.instruction).op = "MakeArray"
        /\ Len(InstructionAt(instructions, ret.instruction).elements)
             = LongerLength * SliceElementCount
        /\ \A k \in 0..(LongerLength * SliceElementCount - 1) :
              /\ PaddedAt(k, call.then_value, call.else_value, call.else_condition)
              /\ PaddedAt(k, call.else_value, call.then_value, call.then_condition)

\* C12: two slices of different lengths were merged, the longer one by two
\* items or more.
C12_Witness ==
    /\ SliceCalled
    /\ ret.tag = "Instruction"
    /\ SliceLengthOf(call.then_value) >= SliceLengthOf(call.else_value) + 2
    /\ SliceElementCount = 2

(* ------------------------------------------------------------------ *)
(* Brillig globals: the initialisation of a constant array              *)
(* ------------------------------------------------------------------ *)

\* The opcodes BrilligContext emits.
MovInstruction(destination, source) ==
    [opcode |-> "Mov", destination |-> destination, source |-> source]
StoreInstruction(destination_pointer, source) ==
    [opcode |-> "Store", destination_pointer |-> destination_pointer, source |-> source]
MemoryOpInstruction(lhs, rhs, destination, operation) ==
    [opcode |-> "BinaryIntOp", lhs |-> lhs, rhs |-> rhs, destination |-> destination,
     operation |-> operation]
UsizeConstantInstruction(destination, value) ==
    [opcode |-> "Const", destination |-> destination, value |-> value]
Some(value) == [tag |-> "Some", value |-> value]

\* codegen_for_loop: the loop from iterator_start to loop_bound by step,
\* NoValue for a step of one, with the opcodes of its body.
ForLoop(iterator_start, loop_bound, step, body) ==
    [opcode |-> "ForLoop", iterator_start |-> iterator_start, loop_bound |-> loop_bound,
     step |-> step, body |-> body]

\* initialize_constant_array: the item that starts at item_index (from 0).
item_at(data, item_types, item_index) ==
    [i \in 1..Len(item_types) |-> data[item_index + i]]

\* initialize_constant_array: is_repeating after the loop over the items.
is_repeating(data, item_types) ==
    \A item \in 1..(Len(data) \div Len(item_types) - 1) :
        item_at(data, item_types, item * Len(item_types)) = item_at(data, item_types, 0)

\* A test for the runtime loop that takes 10 items already.
runtime_loop_chosen_from_ten(item_count, repeating, item_types) ==
    /\ item_count >= 10
    /\ repeating
    /\ \A i \in 1..Len(item_types) : IsNumeric(item_types[i])

\* initialize_constant_array: the test for the runtime loop.
runtime_loop_chosen(item_count, repeating, item_types) ==
    /\ item_count > 10
    /\ repeating
    /\ \A i \in 1..Len(item_types) : IsNumeric(item_types[i])

\* initialize_constant_array_runtime, the initializer_fn of an item of
\* several subitems: a store of each, the pointer moved on in between.
subitems_initializer(subitem_to_repeat_variables) ==
    <<MovInstruction("subitem_pointer", "subitem_start_pointer")>> \o
    [k \in 1..(2 * Len(subitem_to_repeat_variables) - 1) |->
        IF k % 2 = 1
        THEN StoreInstruction("subitem_pointer", subitem_to_repeat_variables[(k + 1) \div 2])
        ELSE MemoryOpInstruction("subitem_pointer", "usize_one", "subitem_pointer", "Add")]

\* initialize_constant_array_runtime with a loop whose iterator advances
\* by one whatever the length of the item.
initialize_constant_array_runtime_by_one(item_types, item_to_repeat, item_count, pointer, brillig_globals) ==
    << UsizeConstantInstruction("end_pointer", item_count * Len(item_types)),
       MemoryOpInstruction("end_pointer", pointer, "end_pointer", "Add") >> \o
    (IF Len(item_types) > 1
     THEN << UsizeConstantInstruction("step", Len(item_types)),
             ForLoop(pointer, "end_pointer", NoValue,
                     subitems_initializer([i \in 1..Len(item_to_repeat) |->
                                              brillig_globals[item_to_repeat[i]]])) >>
     ELSE << ForLoop(pointer, "end_pointer", NoValue,
                     <<StoreInstruction("item_pointer",
                                        brillig_globals[item_to_repeat[1]])>>) >>)

\* Brillig::initialize_constant_array_runtime: the opcodes emitted.
initialize_constant_array_runtime(item_types, item_to_repeat, item_count, pointer, brillig_globals) ==
    << UsizeConstantInstruction("end_pointer", item_count * Len(item_types)),
       MemoryOpInstruction("end_pointer", pointer, "end_pointer", "Add") >> \o
    (IF Len(item_types) > 1
     THEN << UsizeConstantInstruction("step", Len(item_types)),
             ForLoop(pointer, "end_pointer", Some("step"),
                     subitems_initializer([i \in 1..Len(item_to_repeat) |->
                                              brillig_globals[item_to_repeat[i]]])) >>
     ELSE << ForLoop(pointer, "end_pointer", NoValue,
                     <<StoreInstruction("item_pointer",
                                        brillig_globals[item_to_repeat[1]])>>) >>)

\* Brillig::initialize_constant_array_comptime: the opcodes emitted, a
\* store of each element and the write pointer incremented in between.
initialize_constant_array_comptime(data, pointer, brillig_globals) ==
    <<MovInstruction("write_pointer_register", pointer)>> \o
    [k \in 1..(2 * Len(data) - 1) |->
        IF k % 2 = 1
        THEN StoreInstruction("write_pointer_register", brillig_globals[data[(k + 1) \div 2]])
        ELSE MemoryOpInstruction("write_pointer_register", "usize_one",
                                 "write_pointer_register", "Add")]

\* Brillig::initialize_constant_array: the opcodes emitted.
initialize_constant_array(data, typ, pointer, brillig_globals) ==
    IF Len(data) = 0 THEN <<>>
    ELSE IF runtime_loop_chosen(Len(data) \div Len(typ.element_types),
                                is_repeating(data, typ.element_types), typ.element_types)
    THEN initialize_constant_array_runtime(typ.element_types,
             item_at(data, typ.element_types, 0), Len(data) \div Len(typ.element_types),
             pointer, brillig_globals)
    ELSE initialize_constant_array_comptime(data, pointer, brillig_globals)

\* The most items a constant array holds.
MaxItemCount == 12

\* The element types of the global arrays: one or two numeric types, or a
\* nested array.
GlobalItemTypes ==
    {<<NativeField>>, <<Unsigned(MaxBitSize), NativeField>>,
     <<ArrayType(<<NativeField>>, 2)>>}

\* The ValueIds of an array of item_count items that repeat the first one,
\* but for the element at position `changed` (none for 0), which differs.
GlobalData(item_types, item_count, changed) ==
    [k \in 1..(item_count * Len(item_types)) |->
        IF k = changed THEN 0 ELSE 1 + ((k - 1) % Len(item_types))]

\* The variable every global ValueId was given before.
BrilligGlobals == [value_id \in 0..2 |-> [register |-> value_id]]

\* A constant array of the globals, well-typed: data holds item_count items
\* of the element types.
GlobalsInit ==
    /\ SideInit
    /\ \E item_types \in GlobalItemTypes, item_count \in 0..MaxItemCount :
          \E changed \in 0..(item_count * Len(item_types)) :
              call = [op |-> "none", typ |-> ArrayType(item_types, item_count),
                      data |-> GlobalData(item_types, item_count, changed)]
    /\ instructions = <<>>
    /\ block = <<>>
    /\ params = <<>>
    /\ replaced_values = <<>>
    /\ env = <<>>
    /\ runtime = "Brillig"
    /\ pc = "ready"
    /\ ret = NoValue
    /\ pending = <<>>
    /\ new_instructions = <<>>

\* Brillig::initialize_constant_array on the array, the items written from
\* items_pointer on.
InitializeConstantArray ==
    /\ pc = "ready"
    /\ call' = [call EXCEPT !.op = "initialize_constant_array"]
    /\ brillig_context' = brillig_context \o
           initialize_constant_array(call.data, call.typ, "items_pointer", BrilligGlobals)
    /\ pc' = "done"
    /\ UNCHANGED <<instructions, block, params, replaced_values, env, runtime, ret, pending,
                   new_instructions, slice_sizes, array_set_conditionals, blocks, storage,
                   key_to_value, value_to_key, locations, passes, history>>

GlobalsNext == InitializeConstantArray

SpecGlobals == GlobalsInit /\ [][GlobalsNext]_vars

ArrayInitialized ==
    pc = "done" /\ call.op = "initialize_constant_array" /\ Len(call.data) > 0

GroupLength == Len(call.typ.element_types)
ItemCount == Len(call.data) \div GroupLength

\* Every item of the array equals the first item group.
RepeatsFirstItem ==
    \A k \in 1..Len(call.data) : call.data[k] = call.data[((k - 1) % GroupLength) + 1]

RuntimeLoopEmitted ==
    \E i \in 1..Len(brillig_context) : brillig_context[i].opcode = "ForLoop"

\* The positions of the stores among the opcodes emitted, in order.
StorePositions ==
    {i \in 1..Len(brillig_context) : brillig_context[i].opcode = "Store"}
NthStore(n) ==
    CHOOSE i \in StorePositions : Cardinality({j \in StorePositions : j <= i}) = n

\* C13: a non-empty constant array is initialised by the runtime loop
\* exactly when it has more than 10 items, every item equals the first and
\* every element type is numeric; otherwise by straight-line code of
\* item_count * group_len stores, one per element in element order.
C13_RuntimeLoopAboveTenItems ==
    ArrayInitialized =>
        /\ RuntimeLoopEmitted <=>
              (/\ ItemCount > 10
               /\ RepeatsFirstItem
               /\ \A i \in 1..GroupLength : IsNumeric(call.typ.element_types[i]))
        /\ ~RuntimeLoopEmitted =>
              /\ Cardinality(StorePositions) = ItemCount * GroupLength
              /\ \A n \in 1..Len(call.data) :
                    brillig_context[NthStore(n)].source = BrilligGlobals[call.data[n]]

\* C13: an array of exactly 10 equal numeric items was initialised, by
\* straight-line code.
C13_Witness ==
    /\ ArrayInitialized
    /\ ItemCount = 10
    /\ RepeatsFirstItem
    /\ IsNumeric(call.typ.element_types[1])
    /\ ~RuntimeLoopEmitted

(* ------------------------------------------------------------------ *)
(* resolve_is_unconstrained                                             *)
(* A function is the arena `instructions`, the forwarding map           *)
(* `replaced_values`, the `runtime` and its `blocks`, block b (from 0)   *)
(* a record of the ids of its instructions and of its successors.       *)
(* ------------------------------------------------------------------ *)

RECURSIVE reachable_from(_, _)
\* The blocks reached from the blocks `reached` along the terminators.
reachable_from(function_blocks, reached) ==
    IF \A b \in reached : function_blocks[b + 1].successors \subseteq reached
    THEN reached
    ELSE reachable_from(function_blocks,
             reached \cup UNION {function_blocks[b + 1].successors : b \in reached})

\* Function::reachable_blocks: the blocks reached from the entry block.
reachable_blocks(function_blocks) == reachable_from(function_blocks, {0})

InstructionsOf(function_blocks, b) ==
    {function_blocks[b + 1].instructions[i] :
         i \in 1..Len(function_blocks[b + 1].instructions)}

\* replace_is_unconstrained_result: the calls collected, those of the
\* reachable blocks whose target resolves to Intrinsic::IsUnconstrained.
is_unconstrained_calls(dfg, function_blocks) ==
    {instruction_id \in UNION {InstructionsOf(function_blocks, b) :
                                  b \in reachable_blocks(function_blocks)} :
        /\ InstructionAt(dfg.instructions, instruction_id).op = "Call"
        /\ resolve(dfg.replaced_values, InstructionAt(dfg.instructions, instruction_id).func)
              = Intrinsic("IsUnconstrained")}

\* replace_is_unconstrained_result: the blocks that hold a collected call.
blocks_with_is_unconstrained_calls(dfg, function_blocks) ==
    {b \in reachable_blocks(function_blocks) :
        InstructionsOf(function_blocks, b)
            \cap is_unconstrained_calls(dfg, function_blocks) # {}}

\* A constant that is true when the runtime is Acir.
is_within_constrained(function_runtime) ==
    NumericConstant(IF function_runtime = "Acir" THEN 1 ELSE 0, BoolType)

\* replace_is_unconstrained_result: the constant
\* `matches!(self.runtime(), RuntimeType::Brillig(_))` of type bool.
is_within_unconstrained(function_runtime) ==
    NumericConstant(IF function_runtime = "Brillig" THEN 1 ELSE 0, BoolType)

RECURSIVE replace_call_results(_, _, _)
\* replace_is_unconstrained_result: the loop over the collected calls, the
\* result of each replaced by the constant; the forwarding map afterwards.
replace_call_results(replaced, calls, new_value) ==
    IF calls = {} THEN replaced
    ELSE replace_call_results(
             replace_value(replaced, InstructionResult(CHOOSE id \in calls : TRUE), new_value),
             calls \ {CHOOSE id \in calls : TRUE}, new_value)

\* Vec::retain of the ids outside `removed`.
retain_others(ids, removed) ==
    IF \A i \in 1..Len(ids) : ids[i] \notin removed THEN ids
    ELSE [k \in 1..Cardinality({i \in 1..Len(ids) : ids[i] \notin removed}) |->
            ids[CHOOSE i \in 1..Len(ids) :
                    /\ ids[i] \notin removed
                    /\ Cardinality({j \in 1..i : ids[j] \notin removed}) = k]]

\* replace_is_unconstrained_result: the blocks after the collected calls
\* were removed from those that held one.
remove_calls(dfg, function_blocks) ==
    [b \in 1..Len(function_blocks) |->
        IF (b - 1) \in blocks_with_is_unconstrained_calls(dfg, function_blocks)
        THEN [function_blocks[b] EXCEPT
                 !.instructions =
                     retain_others(@, is_unconstrained_calls(dfg, function_blocks))]
        ELSE function_blocks[b]]

\* The function under test: a call of the intrinsic, a use of its result,
\* a call of the function parameter v0 and a call of another function.
UnconstrainedProgram ==
    << Call(Intrinsic("IsUnconstrained"), <<>>, BoolType),
       Not(InstructionResult(0)),
       Call(Param(0), <<>>, BoolType),
       Call(FunctionValue(0), <<>>, BoolType),
       Call(Intrinsic("IsUnconstrained"), <<>>, BoolType) >>

\* The terminators of three blocks, by the successors they give.
ControlFlowGraphs ==
    { <<{}, {}, {}>>, <<{1}, {}, {}>>, <<{1}, {2}, {}>>, <<{1, 2}, {}, {}>>,
      <<{1, 2}, {2}, {}>>, <<{2}, {}, {0}>>, <<{1}, {0}, {1}>> }

\* The instructions of block b, in the order of the arena, when
\* instruction i is in block block_of[i].
BlockInstructions(block_of, b) ==
    retain_others([i \in 1..Len(block_of) |-> i - 1],
                  {i - 1 : i \in {j \in 1..Len(block_of) : block_of[j] # b}})

UnconstrainedInit ==
    /\ instructions = UnconstrainedProgram
    /\ params = <<FunctionType>>
    /\ \E successors \in ControlFlowGraphs,
          block_of \in [1..Len(UnconstrainedProgram) -> 0..2] :
          blocks = [b \in 1..3 |-> [instructions |-> BlockInstructions(block_of, b - 1),
                                    successors |-> successors[b]]]
    /\ replaced_values \in
          { <<>>,
            replace_value(<<>>, Param(0), Intrinsic("IsUnconstrained")),
            replace_value(<<>>, Param(0), FunctionValue(0)),
            replace_value(<<>>, InstructionResult(1), InstructionResult(0)) }
    /\ runtime \in {"Acir", "Brillig"}
    /\ block = <<>>
    /\ env = <<>>
    /\ pc = "ready"
    /\ call = [op |-> "none"]
    /\ ret = NoValue
    /\ pending = <<>>
    /\ new_instructions = <<>>
    /\ slice_sizes = <<>>
    /\ array_set_conditionals = <<>>
    /\ storage = <<>>
    /\ key_to_value = <<>>
    /\ value_to_key = <<>>
    /\ locations = <<>>
    /\ passes = <<>>
    /\ brillig_context = <<>>
    /\ history = <<>>

\* Function::replace_is_unconstrained_result
ReplaceIsUnconstrainedResult ==
    /\ pc = "ready"
    /\ call' = [op |-> "replace_is_unconstrained_result", blocks |-> blocks,
                replaced_values |-> replaced_values]
    /\ replaced_values' =
           replace_call_results(replaced_values, is_unconstrained_calls(Dfg, blocks),
                                is_within_unconstrained(runtime))
    /\ blocks' = remove_calls(Dfg, blocks)
    /\ pc' = "done"
    /\ UNCHANGED <<instructions, block, params, env, runtime, ret, pending,
                   new_instructions, slice_sizes, array_set_conditionals, storage,
                   key_to_value, value_to_key, locations, passes, brillig_context, history>>

UnconstrainedNext == ReplaceIsUnconstrainedResult

SpecUnconstrained == UnconstrainedInit /\ [][UnconstrainedNext]_vars

Resolved ==
    pc = "done" /\ call.op = "replace_is_unconstrained_result"

\* Instruction id is a call whose target resolves, under the forwarding
\* map `replaced`, to Intrinsic::IsUnconstrained.
CallsIsUnconstrained(id, replaced) ==
    /\ instructions[id + 1].op = "Call"
    /\ resolve(replaced, instructions[id + 1].func) = Intrinsic("IsUnconstrained")

\* The blocks reachable before the pass ran, and the calls they held.
ReachableBefore == reachable_blocks(call.blocks)
FormerCalls ==
    {id \in UNION {InstructionsOf(call.blocks, b) : b \in ReachableBefore} :
        CallsIsUnconstrained(id, call.replaced_values)}

\* ids is the sequence `before` without the former calls, in order.
KeepsOthersInOrder(ids, before) ==
    /\ \A i \in 1..Len(ids) : ids[i] \notin FormerCalls
    /\ \E positions \in [1..Len(ids) -> 1..Len(before)] :
          /\ \A i \in 1..Len(ids) : before[positions[i]] = ids[i]
          /\ \A i, j \in 1..Len(ids) : i < j => positions[i] < positions[j]
    /\ \A i \in 1..Len(before) :
          before[i] \notin FormerCalls => \E j \in 1..Len(ids) : ids[j] = before[i]

\* C14: after the pass no reachable block holds a call whose target
\* resolves to Intrinsic::IsUnconstrained, the result of every former such
\* call resolves to the bool constant that is true exactly for a Brillig
\* runtime, and every other instruction is still in its block, in the
\* order it had.
C14_IsUnconstrainedCallsResolved ==
    Resolved =>
        /\ \A b \in reachable_blocks(blocks) :
              \A id \in InstructionsOf(blocks, b) : ~CallsIsUnconstrained(id, replaced_values)
        /\ \A id \in FormerCalls :
              resolve(replaced_values, InstructionResult(id))
                  = NumericConstant(IF runtime = "Brillig" THEN 1 ELSE 0, BoolType)
        /\ \A b \in 1..Len(blocks) :
              IF (b - 1) \in ReachableBefore
              THEN KeepsOthersInOrder(blocks[b].instructions, call.blocks[b].instructions)
              ELSE blocks[b] = call.blocks[b]

\* C14: the pass removed two calls from one reachable block of a Brillig
\* function and left an instruction between them.
C14_Witness ==
    /\ Resolved
    /\ runtime = "Brillig"
    /\ Cardinality(FormerCalls) >= 2
    /\ \E b \in 1..Len(blocks) :
          /\ Len(call.blocks[b].instructions) = Len(blocks[b].instructions) + 2
          /\ Len(blocks[b].instructions) >= 1

(* ------------------------------------------------------------------ *)
(* The id maps of ir/map.rs.  A HashMap or BTreeMap is a function from   *)
(* the keys it holds; an Id is its index.                               *)
(* ------------------------------------------------------------------ *)

\* What the map operations leave alone.
besidesMaps == <<instructions, block, params, replaced_values, env, runtime, pending,
                 new_instructions, slice_sizes, array_set_conditionals, blocks, passes,
                 brillig_context, locations>>

\* The calls a map takes in one run.
MaxCalls == 3

\* TwoWayMap::insert: the map afterwards and the key returned.
two_way_map_insert(map, key, element) ==
    IF element \in DOMAIN map.value_to_key
    THEN [map |-> map, key |-> map.value_to_key[element]]
    ELSE [map |-> [key_to_value |-> (key :> element) @@ map.key_to_value,
                   value_to_key |-> (element :> key) @@ map.value_to_key],
          key |-> key]

\* TwoWayMap::len
two_way_map_len(map) == Cardinality(DOMAIN map.key_to_value)

\* An IdSet that gives every call a new id.
get_or_insert_fresh(map, element) ==
    [map |-> two_way_map_insert(map, element, two_way_map_len(map)).map,
     id |-> two_way_map_len(map)]

\* IdSet::get_or_insert: the map afterwards and the id returned.
get_or_insert(map, element) ==
    IF element \in DOMAIN map.key_to_value
    THEN [map |-> map, id |-> map.key_to_value[element]]
    ELSE [map |-> two_way_map_insert(map, element, two_way_map_len(map)).map,
          id |-> two_way_map_len(map)]

\* IdSet index by Id
id_set_index(map, index) == map.value_to_key[index]

\* DataFlowGraph::constant_by_ref after get_or_insert returned r: the
\* numeric_constants afterwards and the Value.
constant_made(r, typ) ==
    [numeric_constants |-> r.map, value |-> NumericConstant(r.id, typ)]

\* DataFlowGraph::constant_by_ref
constant_by_ref(numeric_constants, field_element, typ) ==
    constant_made(get_or_insert(numeric_constants, field_element), typ)

\* The field elements made constants.
ConstantSamples == 0..NumValues

\* dfg.numeric_constants, an IdSet over a TwoWayMap.
NumericConstants == [key_to_value |-> key_to_value, value_to_key |-> value_to_key]

\* A new DataFlowGraph: no constant yet.
ConstantsInit ==
    /\ SideInit
    /\ instructions = <<>>
    /\ block = <<>>
    /\ params = <<>>
    /\ replaced_values = <<>>
    /\ env = <<>>
    /\ runtime = "Acir"
    /\ pc = "ready"
    /\ call = [op |-> "none"]
    /\ ret = NoValue
    /\ pending = <<>>
    /\ new_instructions = <<>>

\* constant_by_ref returned r.
ConstantReturned(r) ==
    /\ key_to_value' = r.numeric_constants.key_to_value
    /\ value_to_key' = r.numeric_constants.value_to_key
    /\ ret' = r.value
    /\ history' = Append(history, [constant |-> call'.constant, typ |-> call'.typ,
                                    value |-> r.value])

\* DataFlowGraph::constant
DataFlowGraphConstant ==
    /\ Len(history) < MaxCalls
    /\ \E field_element \in ConstantSamples, typ \in {NativeField, BoolType} :
          /\ call' = [op |-> "constant", constant |-> field_element, typ |-> typ]
          /\ ConstantReturned(constant_by_ref(NumericConstants, field_element, typ))
    /\ UNCHANGED <<besidesMaps, pc, storage>>

ConstantsNext == DataFlowGraphConstant

SpecConstants == ConstantsInit /\ [][ConstantsNext]_vars

\* C15: of the calls of DataFlowGraph::constant made so far, two with the
\* same field element and type returned the same Value, two with different
\* field elements returned different constant ids, and every id returned
\* still denotes the field element it was returned for.
C15_ConstantsAreInterned ==
    \A i \in 1..Len(history) :
        /\ id_set_index(NumericConstants, history[i].value.constant) = history[i].constant
        /\ \A j \in 1..Len(history) :
              /\ (history[i].constant = history[j].constant
                  /\ history[i].typ = history[j].typ) => history[i].value = history[j].value
              /\ history[i].constant # history[j].constant =>
                    history[i].value.constant # history[j].value.constant

\* C15: the same field element was made a constant twice, with another one
\* in between.
C15_Witness ==
    /\ Len(history) = 3
    /\ history[1].constant = history[3].constant
    /\ history[1].typ = history[3].typ
    /\ history[1].constant # history[2].constant

(* ------------------------------------------------------------------ *)
(* TwoWayMap                                                            *)
(* ------------------------------------------------------------------ *)

\* The TwoWayMap of the state.
TwoWayMap == [key_to_value |-> key_to_value, value_to_key |-> value_to_key]

\* TwoWayMap::insert returned r.
TwoWayInserted(r) ==
    /\ key_to_value' = r.map.key_to_value
    /\ value_to_key' = r.map.value_to_key
    /\ ret' = r.key
    /\ history' = Append(history, [key |-> call'.key, element |-> call'.element,
                                    returned |-> r.key])

\* TwoWayMap::insert(key, element) on keys and values 0..NumValues - 1.
TwoWayMapInsert ==
    /\ Len(history) < MaxCalls
    /\ \E key \in 0..(NumValues - 1), element \in 0..(NumValues - 1) :
          /\ call' = [op |-> "insert", key |-> key, element |-> element,
                      present |-> element \in DOMAIN value_to_key,
                      before |-> TwoWayMap]
          /\ TwoWayInserted(two_way_map_insert(TwoWayMap, key, element))
    /\ UNCHANGED <<besidesMaps, pc, storage>>

TwoWayNext == TwoWayMapInsert

\* A TwoWayMap::default().
SpecTwoWay == ConstantsInit /\ [][TwoWayNext]_vars

\* The two maps are inverses of each other.
Bijective ==
    /\ \A key \in DOMAIN key_to_value :
          /\ key_to_value[key] \in DOMAIN value_to_key
          /\ value_to_key[key_to_value[key]] = key
    /\ \A element \in DOMAIN value_to_key :
          /\ value_to_key[element] \in DOMAIN key_to_value
          /\ key_to_value[value_to_key[element]] = element

\* C16: after any sequence of TwoWayMap::insert calls key_to_value and
\* value_to_key are inverses of each other, and an insert of a value that
\* was present returned its key and changed nothing.
C16_TwoWayMapIsBijection ==
    /\ Bijective
    /\ (call.op = "insert" /\ call.present) =>
          /\ ret = call.before.value_to_key[call.element]
          /\ TwoWayMap = call.before

\* C16: a value that was present was inserted again under another key.
C16_Witness ==
    /\ call.op = "insert"
    /\ call.present
    /\ ret # call.key
    /\ Bijective

(* ------------------------------------------------------------------ *)
(* SparseMap: `storage` is the BTreeMap, a function from the ids stored  *)
(* ------------------------------------------------------------------ *)

\* SparseMap::len
sparse_map_len(map_storage) == Cardinality(DOMAIN map_storage)

\* SparseMap::insert: the storage afterwards and the id returned;
\* BTreeMap::insert overwrites the element of a key it holds.
sparse_map_insert(map_storage, element) ==
    [storage |-> [id \in DOMAIN map_storage \cup {sparse_map_len(map_storage)} |->
                     IF id = sparse_map_len(map_storage) THEN element ELSE map_storage[id]],
     id |-> sparse_map_len(map_storage)]

\* SparseMap::remove: the storage afterwards and the element returned,
\* NoValue for None.
sparse_map_remove(map_storage, id) ==
    [storage |-> [other \in DOMAIN map_storage \ {id} |-> map_storage[other]],
     element |-> IF id \in DOMAIN map_storage THEN map_storage[id] ELSE NoValue]

\* SparseMap index by Id: `&self.storage[&id]` panics for an id that is not
\* stored, written -1.
sparse_map_index(map_storage, id) ==
    IF id \in DOMAIN map_storage THEN map_storage[id] ELSE -1

\* SparseMap::insert of one of the elements 0..NumValues - 1.
SparseMapInsert ==
    /\ Len(history) < MaxCalls + 2
    /\ \E element \in 0..(NumValues - 1) :
          /\ call' = [op |-> "insert", element |-> element, before |-> storage]
          /\ storage' = sparse_map_insert(storage, element).storage
          /\ ret' = sparse_map_insert(storage, element).id
          /\ history' = Append(history, [op |-> "insert",
                                         id |-> sparse_map_insert(storage, element).id])
    /\ UNCHANGED <<besidesMaps, pc, key_to_value, value_to_key>>

\* SparseMap::remove of an id that insert returned before.
SparseMapRemove ==
    /\ Len(history) < MaxCalls + 2
    /\ \E i \in 1..Len(history) :
          /\ history[i].op = "insert"
          /\ call' = [op |-> "remove", id |-> history[i].id, before |-> storage]
          /\ storage' = sparse_map_remove(storage, history[i].id).storage
          /\ ret' = sparse_map_remove(storage, history[i].id).element
          /\ history' = Append(history, [op |-> "remove", id |-> history[i].id])
    /\ UNCHANGED <<besidesMaps, pc, key_to_value, value_to_key>>

SparseNext == SparseMapInsert \/ SparseMapRemove

\* A SparseMap::default().
SpecSparse == ConstantsInit /\ [][SparseNext]_vars

\* The ids removed so far.
RemovedIds == {history[i].id : i \in {j \in 1..Len(history) : history[j].op = "remove"}}

\* C17: an id that was removed stays invalid, indexing it panics, and
\* insert returns an id that was not the key of an element stored.
C17_SparseMapIdsAreStable ==
    /\ \A id \in RemovedIds : sparse_map_index(storage, id) = -1
    /\ call.op = "insert" => ret \notin DOMAIN call.before

\* C17: an element was inserted after a removal.
C17_Witness ==
    /\ call.op = "insert"
    /\ RemovedIds # {}
    /\ storage[ret] = call.element

(* ------------------------------------------------------------------ *)
(* DenseMap: `storage` is the Vec; the id i is the element i + 1 of the  *)
(* sequence                                                              *)
(* ------------------------------------------------------------------ *)

\* DenseMap::len
dense_map_len(vec) == Len(vec)

\* A mutant: the element is put in front of the Vec.
dense_map_insert_front(vec, element) ==
    [storage |-> <<element>> \o vec, id |-> dense_map_len(vec)]

\* DenseMap::insert: the Vec afterwards and the id returned.
dense_map_insert(vec, element) ==
    [storage |-> Append(vec, element), id |-> dense_map_len(vec)]

\* DenseMap index by Id: `&self.storage[id.index]`, -1 for the panic of an
\* index out of bounds.
dense_map_index(vec, id) ==
    IF id \in 0..(Len(vec) - 1) THEN vec[id + 1] ELSE -1

\* DenseMap::iter: the ids 0 .. len - 1 zipped with the elements.
dense_map_iter(vec) ==
    [i \in 1..dense_map_len(vec) |-> <<i - 1, vec[i]>>]

\* DenseMap::insert of one of the elements 0..NumValues - 1.
DenseMapInsert ==
    /\ Len(history) < MaxCalls + 2
    /\ \E element \in 0..(NumValues - 1) :
          /\ call' = [op |-> "insert", element |-> element, before |-> storage]
          /\ storage' = dense_map_insert(storage, element).storage
          /\ ret' = dense_map_insert(storage, element).id
          /\ history' = Append(history, [id |-> dense_map_insert(storage, element).id,
                                         element |-> element])
    /\ UNCHANGED <<besidesMaps, pc, key_to_value, value_to_key>>

\* DenseMap::iter, collected.
DenseMapIter ==
    /\ call.op # "iter"
    /\ call' = [op |-> "iter", before |-> storage]
    /\ ret' = dense_map_iter(storage)
    /\ UNCHANGED <<besidesMaps, pc, key_to_value, value_to_key, storage, history>>

DenseNext == DenseMapInsert \/ DenseMapIter

\* A DenseMap::default().
SpecDense == ConstantsInit /\ [][DenseNext]_vars

\* C18: insert returns the previous length as the id, every element ever
\* inserted is still the one its id indexes, and iter yields the pairs of
\* the ids 0 .. len - 1 in increasing order.
C18_DenseMapIdsAreIndices ==
    /\ call.op = "insert" =>
          /\ ret = Len(call.before)
          /\ dense_map_index(storage, ret) = call.element
    /\ \A i \in 1..Len(history) :
          dense_map_index(storage, history[i].id) = history[i].element
    /\ call.op = "iter" =>
          /\ Len(ret) = dense_map_len(storage)
          /\ \A i \in 1..Len(ret) :
                /\ ret[i][1] = i - 1
                /\ ret[i][2] = dense_map_index(storage, i - 1)

\* C18: iter ran on a map of three elements or more, not all the same.
C18_Witness ==
    /\ call.op = "iter"
    /\ Len(ret) >= 3
    /\ \E i \in 1..Len(ret) : ret[i][2] # ret[1][2]

(* ------------------------------------------------------------------ *)
(* ssa.rs: create_program and optimize_into_acir.  `pc` is the position  *)
(* in optimize_into_acir, `passes` the passes the SsaBuilder has run     *)
(* with their results, `history` the other stages that ran, `call` the   *)
(* options and the program, `env` the locals of optimize_into_acir and   *)
(* `ret` what optimize_into_acir and create_program returned.            *)
(* ------------------------------------------------------------------ *)

Ok(value) == [tag |-> "Ok", value |-> value]
Err(error) == [tag |-> "Err", error |-> error]

\* The RuntimeErrors a stage can return.
RuntimeErrors == 1..NumValues

RunPassEntry(name) == [pass |-> name, fallible |-> FALSE]
TryRunPassEntry(name) == [pass |-> name, fallible |-> TRUE]

\* A mutant: constraint folding before the removal of EnableSideEffectsIf,
\* and the second inlining one pass late.
schedule_reordered ==
    << RunPassEntry("defunctionalize"),
       RunPassEntry("remove_paired_rc"),
       RunPassEntry("separate_runtime"),
       RunPassEntry("resolve_is_unconstrained"),
       RunPassEntry("inline_functions"),
       RunPassEntry("mem2reg"),
       RunPassEntry("simplify_cfg"),
       RunPassEntry("as_slice_optimization"),
       TryRunPassEntry("evaluate_static_assert_and_assert_constant"),
       TryRunPassEntry("unroll_loops_iteratively"),
       RunPassEntry("simplify_cfg"),
       RunPassEntry("flatten_cfg"),
       RunPassEntry("remove_bit_shifts"),
       RunPassEntry("mem2reg"),
       RunPassEntry("remove_if_else"),
       RunPassEntry("inline_functions_with_no_predicates"),
       RunPassEntry("fold_constants"),
       RunPassEntry("fold_constants_using_constraints"),
       RunPassEntry("remove_enable_side_effects"),
       RunPassEntry("dead_instruction_elimination"),
       RunPassEntry("simplify_cfg"),
       RunPassEntry("array_set_optimization") >>

\* The chain of run_pass and try_run_pass calls of optimize_into_acir.
schedule ==
    << RunPassEntry("defunctionalize"),
       RunPassEntry("remove_paired_rc"),
       RunPassEntry("separate_runtime"),
       RunPassEntry("resolve_is_unconstrained"),
       RunPassEntry("inline_functions"),
       RunPassEntry("mem2reg"),
       RunPassEntry("simplify_cfg"),
       RunPassEntry("as_slice_optimization"),
       TryRunPassEntry("evaluate_static_assert_and_assert_constant"),
       TryRunPassEntry("unroll_loops_iteratively"),
       RunPassEntry("simplify_cfg"),
       RunPassEntry("flatten_cfg"),
       RunPassEntry("remove_bit_shifts"),
       RunPassEntry("mem2reg"),
       RunPassEntry("inline_functions_with_no_predicates"),
       RunPassEntry("remove_if_else"),
       RunPassEntry("fold_constants"),
       RunPassEntry("remove_enable_side_effects"),
       RunPassEntry("fold_constants_using_constraints"),
       RunPassEntry("dead_instruction_elimination"),
       RunPassEntry("simplify_cfg"),
       RunPassEntry("array_set_optimization") >>

\* The pass the builder runs next.
next_pass == schedule[Len(passes) + 1]

\* A mutant: the error of the pass is dropped and the chain goes on.
try_run_pass_unchecked(outcome) ==
    [pc |-> "passes", ret |-> ret]

\* SsaBuilder::try_run_pass followed by `?`: where optimize_into_acir goes
\* after the pass returned `outcome`, and what it has returned.
try_run_pass(outcome) ==
    IF outcome.tag = "Err"
    THEN [pc |-> "returned", ret |-> [ret EXCEPT !.optimize_into_acir = outcome]]
    ELSE [pc |-> "passes", ret |-> ret]

besidesPipeline == <<instructions, block, params, replaced_values, runtime, pending,
                     new_instructions, slice_sizes, array_set_conditionals, blocks, storage,
                     key_to_value, value_to_key, locations, brillig_context>>

\* create_program is called with a program of one or two function
\* signatures and any options.
PipelineInit ==
    /\ instructions = <<>>
    /\ block = <<>>
    /\ params = <<>>
    /\ replaced_values = <<>>
    /\ runtime = "Acir"
    /\ pending = <<>>
    /\ new_instructions = <<>>
    /\ slice_sizes = <<>>
    /\ array_set_conditionals = <<>>
    /\ blocks = <<>>
    /\ storage = <<>>
    /\ key_to_value = <<>>
    /\ value_to_key = <<>>
    /\ locations = <<>>
    /\ brillig_context = <<>>
    /\ passes = <<>>
    /\ history = <<>>
    /\ env = [ssa_level_warnings |-> NoValue]
    /\ pc = "new"
    /\ ret = [optimize_into_acir |-> NoValue, create_program |-> NoValue]
    /\ \E skip_underconstrained_check \in BOOLEAN, force_brillig_output \in BOOLEAN,
          func_sigs \in 1..2 :
          call = [skip_underconstrained_check |-> skip_underconstrained_check,
                  force_brillig_output |-> force_brillig_output,
                  func_sigs |-> func_sigs]

\* SsaBuilder::new followed by `?`: generate_ssa returns the Ssa or an error.
SsaBuilderNew ==
    /\ pc = "new"
    /\ \E outcome \in {Ok("ssa")} \cup {Err(error) : error \in RuntimeErrors} :
          /\ history' = Append(history, "generate_ssa")
          /\ pc' = IF outcome.tag = "Err" THEN "returned" ELSE "passes"
          /\ ret' = IF outcome.tag = "Err" THEN [ret EXCEPT !.optimize_into_acir = outcome]
                                           ELSE ret
    /\ UNCHANGED <<besidesPipeline, passes, env, call>>

\* SsaBuilder::run_pass of the next pass of the chain.
RunPass ==
    /\ pc = "passes"
    /\ Len(passes) < Len(schedule)
    /\ ~next_pass.fallible
    /\ passes' = Append(passes, [pass |-> next_pass.pass, outcome |-> Ok("ssa")])
    /\ UNCHANGED <<besidesPipeline, history, env, call, pc, ret>>

\* SsaBuilder::try_run_pass of the next pass of the chain, and the `?`.
TryRunPass ==
    /\ pc = "passes"
    /\ Len(passes) < Len(schedule)
    /\ next_pass.fallible
    /\ \E outcome \in {Ok("ssa")} \cup {Err(error) : error \in RuntimeErrors} :
          /\ passes' = Append(passes, [pass |-> next_pass.pass, outcome |-> outcome])
          /\ pc' = try_run_pass(outcome).pc
          /\ ret' = try_run_pass(outcome).ret
    /\ UNCHANGED <<besidesPipeline, history, env, call>>

\* SsaBuilder::finish and the under-constrained check, left out when
\* skip_underconstrained_check is set.
CheckForUnderconstrainedValues ==
    /\ pc = "passes"
    /\ Len(passes) = Len(schedule)
    /\ IF call.skip_underconstrained_check
       THEN /\ env' = [env EXCEPT !.ssa_level_warnings = {}]
            /\ UNCHANGED history
       ELSE /\ \E warnings \in SUBSET {"underconstrained"} :
                  env' = [env EXCEPT !.ssa_level_warnings = warnings]
            /\ history' = Append(history, "check_for_underconstrained_values")
    /\ pc' = "to_brillig"
    /\ UNCHANGED <<besidesPipeline, passes, call, ret>>

\* Ssa::to_brillig
ToBrillig ==
    /\ pc = "to_brillig"
    /\ history' = Append(history, "to_brillig")
    /\ pc' = "into_acir"
    /\ UNCHANGED <<besidesPipeline, passes, env, call, ret>>

\* Ssa::into_acir followed by `?` and the Ok(ArtifactsAndWarnings(..)):
\* the artifacts hold one ACIR or as many as there are function signatures.
IntoAcir ==
    /\ pc = "into_acir"
    /\ \E outcome \in {Ok(generated_acirs) : generated_acirs \in {1, call.func_sigs}}
                         \cup {Err(error) : error \in RuntimeErrors} :
          ret' = [ret EXCEPT !.optimize_into_acir =
                     IF outcome.tag = "Err" THEN outcome
                     ELSE Ok([generated_acirs |-> outcome.value,
                              ssa_level_warnings |-> env.ssa_level_warnings])]
    /\ history' = Append(history, "into_acir")
    /\ pc' = "returned"
    /\ UNCHANGED <<besidesPipeline, passes, env, call>>

\* What create_program makes of the result of optimize_into_acir: the
\* error, a panic of one of the two assert_eq!, or the program artifact.
program_artifact(returned, options) ==
    IF returned.tag = "Err" THEN returned
    ELSE IF returned.value.generated_acirs #
               (IF options.force_brillig_output THEN 1 ELSE options.func_sigs)
    THEN [tag |-> "panic"]
    ELSE Ok([circuits |-> returned.value.generated_acirs,
             warnings |-> returned.value.ssa_level_warnings])

\* create_program, from the `?` on optimize_into_acir to its return.
CreateProgram ==
    /\ pc = "returned"
    /\ ret' = [ret EXCEPT !.create_program = program_artifact(ret.optimize_into_acir, call)]
    /\ pc' = "done"
    /\ UNCHANGED <<besidesPipeline, passes, history, env, call>>

PipelineNext ==
    \/ SsaBuilderNew
    \/ RunPass
    \/ TryRunPass
    \/ CheckForUnderconstrainedValues
    \/ ToBrillig
    \/ IntoAcir
    \/ CreateProgram

SpecPipeline == PipelineInit /\ [][PipelineNext]_vars

\* The stages besides the passes that have run.
StagesRun == {history[i] : i \in 1..Len(history)}

\* The names of the passes run so far.
PassesRun == [i \in 1..Len(passes) |-> passes[i].pass]

\* The order of the passes as the pipeline lists it.
ListedOrder ==
    << "defunctionalize", "remove_paired_rc", "separate_runtime",
       "resolve_is_unconstrained", "inline_functions", "mem2reg", "simplify_cfg",
       "as_slice_optimization", "evaluate_static_assert_and_assert_constant",
       "unroll_loops_iteratively", "simplify_cfg", "flatten_cfg", "remove_bit_shifts",
       "mem2reg", "inline_functions_with_no_predicates", "remove_if_else",
       "fold_constants", "remove_enable_side_effects",
       "fold_constants_using_constraints", "dead_instruction_elimination",
       "simplify_cfg", "array_set_optimization" >>

\* The positions in the log at which the pass `name` ran.
RanAt(name) == {i \in 1..Len(passes) : passes[i].pass = name}

\* Every run of `earlier` so far precedes every run of `later`, and
\* `later` has run only if `earlier` has.
RunsAfter(later, earlier) ==
    \A i \in RanAt(later) : RanAt(earlier) # {} /\ \A j \in RanAt(earlier) : j < i

\* The position of the second run of mem2reg, 0 before it.
SecondMem2Reg ==
    IF Cardinality(RanAt("mem2reg")) < 2 THEN 0
    ELSE CHOOSE i \in RanAt("mem2reg") : \A j \in RanAt("mem2reg") : j <= i

Succeeded == ret.optimize_into_acir.tag = "Ok"

\* The order the claim singles out, on the passes run so far.
OrderKept ==
    /\ PassesRun = SubSeq(ListedOrder, 1, Len(passes))
    /\ RunsAfter("resolve_is_unconstrained", "separate_runtime")
    /\ SecondMem2Reg # 0 => \A j \in RanAt("flatten_cfg") : j < SecondMem2Reg
    /\ RanAt("inline_functions_with_no_predicates") \subseteq
          {i \in 1..Len(passes) : i = SecondMem2Reg + 1 /\ SecondMem2Reg # 0}
    /\ (SecondMem2Reg # 0 /\ Len(passes) > SecondMem2Reg) =>
          passes[SecondMem2Reg + 1].pass = "inline_functions_with_no_predicates"
    /\ RunsAfter("fold_constants_using_constraints", "remove_enable_side_effects")
    /\ ("to_brillig" \in StagesRun \/ "into_acir" \in StagesRun) =>
          /\ PassesRun = ListedOrder
          /\ passes[Len(passes)].pass = "array_set_optimization"
    /\ Succeeded => PassesRun = ListedOrder

\* C19: at every point of a run the passes run so far are a prefix of the
\* listed order with the orderings the pipeline relies on, a successful
\* run has run the whole list once, Brillig and ACIR generation start only
\* after array_set_optimization, and every step runs at most one pass,
\* appended to those already run (no pass is run again to a fixpoint).
C19_PassesRunInListedOrder ==
    /\ []OrderKept
    /\ [][passes' # passes =>
             /\ Len(passes') = Len(passes) + 1
             /\ SubSeq(passes', 1, Len(passes)) = passes]_vars

\* C19: a run succeeded with every pass run.
C19_Witness ==
    /\ pc = "done"
    /\ ret.create_program.tag = "Ok"
    /\ Len(passes) = Len(ListedOrder)
    /\ "to_brillig" \in StagesRun

\* The fallible passes whose error the log holds.
Failed == {i \in 1..Len(passes) : passes[i].outcome.tag = "Err"}

\* C20: a pass that returned an error is evaluate_static_assert_and_-
\* assert_constant or unroll_loops_iteratively and the last pass run; no
\* under-constrained check, Brillig lowering or ACIR generation has run;
\* optimize_into_acir has returned that error, and create_program, once it
\* has returned, returned the same error and no artifact.
C20_FalliblePassErrorShortCircuits ==
    \A i \in Failed :
        /\ passes[i].pass \in {"evaluate_static_assert_and_assert_constant",
                               "unroll_loops_iteratively"}
        /\ i = Len(passes)
        /\ history = <<"generate_ssa">>
        /\ pc \in {"returned", "done"}
        /\ ret.optimize_into_acir = passes[i].outcome
        /\ pc = "done" => ret.create_program = passes[i].outcome

\* C20: unroll_loops_iteratively failed and create_program returned.
C20_Witness ==
    /\ pc = "done"
    /\ Failed # {}
    /\ passes[Len(passes)].pass = "unroll_loops_iteratively"
    /\ ret.create_program.tag = "Err"

(* ------------------------------------------------------------------ *)
(* Shift left by a constant: the instructions chosen                    *)
(* ------------------------------------------------------------------ *)

\* The pass ran on an ACIR function holding a Shl by a constant.
ShlByConstant ==
    /\ call.op = "remove_bit_shifts" /\ runtime = "Acir"
    /\ TheShift.operator = "Shl"
    /\ TheShift.rhs.tag = "NumericConstant"

\* The instructions the pass added to the graph.
ShiftEmitted == SubSeq(instructions, call.shift + 2, Len(instructions))

\* max_bits(lhs) + k as an integer sum.
ExactMaxBit ==
    get_value_max_num_bits(instructions, params, TheShift.lhs) + TheShift.rhs.constant

\* 2^k as a constant of the type of lhs.
ShiftPow == NumericConstant(Pow2(TheShift.rhs.constant), ShiftLhsType)

\* `value` is `operand` cast to Field, as the cast is inserted or as the
\* cast simplifier rewrites it: a Field value equal to the operand.
IsFieldOf(value, operand) ==
    /\ type_of_value(instructions, params, value) = NativeField
    /\ Eval(instructions, params, env, value) = Eval(instructions, params, env, operand)

\* Emitted is the multiplication in the field, truncated to the bit size
\* with max_bit declared, and cast back to the type of lhs.
TruncatedProduct(emitted, product, max_bit) ==
    /\ Len(emitted) >= 3
    /\ emitted[product].op = "Binary" /\ emitted[product].operator = "Mul"
    /\ IsFieldOf(emitted[product].lhs, TheShift.lhs)
    /\ IsFieldOf(emitted[product].rhs, ShiftPow)
    /\ emitted[product + 1] =
          Truncate(InstructionResult(call.shift + product), ShiftLhsType.bit_size, max_bit)
    /\ emitted[product + 2] =
          Cast(InstructionResult(call.shift + product + 1), ShiftLhsType)
    /\ product + 2 = Len(emitted)
    /\ resolve(replaced_values, InstructionResult(call.shift)) =
          InstructionResult(call.shift + product + 2)

\* C21: for a constant shift amount k with 2^k within 128 bits the lowering
\* does not trap, and with max_bit the integer sum max_bits(lhs) + k it
\* emits the single Mul(lhs, 2^k) in the type of lhs when max_bit <= B, and
\* otherwise the casts to Field, the Mul, the Truncate to B bits declaring
\* max_bit and the cast back.
C21_ShlUsesExactMaxBit ==
    (ShlByConstant /\ TheShift.rhs.constant < U128Bits) =>
        /\ pc # "panic"
        /\ pc = "done" =>
              IF ExactMaxBit <= ShiftLhsType.bit_size
              THEN /\ ShiftEmitted = << Binary(TheShift.lhs, "Mul", ShiftPow) >>
                   /\ resolve(replaced_values, InstructionResult(call.shift)) =
                         InstructionResult(call.shift + 1)
              ELSE TruncatedProduct(ShiftEmitted, Len(ShiftEmitted) - 2, ExactMaxBit)

\* C21: a shift by a constant was lowered to the truncated product.
C21_Witness ==
    /\ ShlByConstant /\ TheShift.rhs.constant < U128Bits
    /\ pc = "done"
    /\ ExactMaxBit > ShiftLhsType.bit_size
    /\ TruncatedProduct(ShiftEmitted, Len(ShiftEmitted) - 2, ExactMaxBit)

InnerArrayType == ArrayType(<<NativeField>>, 2)
NestedArrayType == ArrayType(<<InnerArrayType>>, ArrayLength)

\* The ArraySet an earlier array of arrays can be extended by: index 0 or
\* 1 gets the array Param(4).
NextNestedArraySets(sets) ==
    {ArraySet(array, NumericConstant(index, Unsigned(U32Bits)), Param(4)) :
         array \in ArraysOf(sets), index \in 0..1}

RECURSIVE NestedArraySetBlocks(_)
NestedArraySetBlocks(n) ==
    IF n = 0 THEN {<<>>}
    ELSE UNION {{Append(sets, ins) : ins \in NextNestedArraySets(sets)} :
                    sets \in NestedArraySetBlocks(n - 1)}

\* A block of ArraySets on the array of arrays Param(0), in a branch whose
\* condition is Param(1) or Param(2); Param(3) is the outer condition.
NestedInit ==
    /\ \E n \in 1..MaxArraySets : instructions \in NestedArraySetBlocks(n)
    /\ block = [i \in 1..Len(instructions) |-> i - 1]
    /\ params = <<NestedArrayType, BoolType, BoolType, BoolType, InnerArrayType>>
    /\ \E condition \in {Param(1), Param(2)} :
          array_set_conditionals =
              [value \in {InstructionResult(i - 1) : i \in 1..Len(instructions)} |->
                  condition]
    /\ replaced_values = <<>>
    /\ env = <<>>
    /\ runtime = "Acir"
    /\ pc = "ready"
    /\ call = [op |-> "none"]
    /\ ret = NoValue
    /\ pending = <<>>
    /\ new_instructions = <<>>
    /\ slice_sizes = <<>>
    /\ blocks = <<>>
    /\ storage = <<>>
    /\ key_to_value = <<>>
    /\ value_to_key = <<>>
    /\ locations = <<>>
    /\ passes = <<>>
    /\ brillig_context = <<>>
    /\ history = <<>>

\* The merger on arrays of fields and on arrays of arrays.
SpecElements == (ChangedInit \/ NestedInit) /\ [][ChangedNext]_vars

\* The values the parameters take: the array, the two branch conditions, of
\* which one holds, the outer condition and, for an array of arrays, the
\* array that is stored.
ChangedEnvs ==
    {IF Len(params) = 5
     THEN << [i \in 1..ArrayLength |-> <<10 + i, 20 + i>>], then_holds, 1 - then_holds,
             outer, <<30, 31>> >>
     ELSE << [i \in 1..ArrayLength |-> 10 + i], then_holds, 1 - then_holds, outer >> :
        then_holds \in 0..1, outer \in 0..1}

RECURSIVE Meaning(_, _)
RECURSIVE MeaningOf(_, _, _)

\* An ArraySet writes when the side-effects condition it was made under,
\* the one array_set_conditionals records for it, holds.
SideEffectsEnabled(value, e) ==
    value \in DOMAIN array_set_conditionals =>
        Meaning(array_set_conditionals[value], e) = 1

\* What `value` holds when the parameters take the values e.
Meaning(value, e) ==
    CASE value.tag = "Param" -> e[value.position + 1]
      [] value.tag = "NumericConstant" -> value.constant
      [] value.tag = "Instruction" ->
            MeaningOf(value, InstructionAt(instructions, value.instruction), e)

MeaningOf(value, ins, e) ==
    CASE ins.op = "ArraySet" ->
            IF SideEffectsEnabled(value, e)
            THEN [Meaning(ins.array, e) EXCEPT ![Meaning(ins.index, e) + 1] =
                                                   Meaning(ins.value, e)]
            ELSE Meaning(ins.array, e)
      [] ins.op = "ArrayGet" -> Meaning(ins.array, e)[Meaning(ins.index, e) + 1]
      [] ins.op = "MakeArray" ->
            [i \in 1..Len(ins.elements) |-> Meaning(ins.elements[i], e)]
      [] ins.op = "Cast" -> EvalCast(ins.typ, Meaning(ins.value, e))
      [] ins.op = "Binary" ->
            EvalBinary(ins.operator, type_of_value(instructions, params, ins.lhs),
                       Meaning(ins.lhs, e), Meaning(ins.rhs, e))

\* try_merge_only_changed_indices returned an array.
ChangedMerged == ChangedCalled /\ ret # NoValue

\* C23: the array try_merge_only_changed_indices returns holds, at every
\* index, the element of then_value when the then condition holds and the
\* element of else_value when the else condition holds.
C23_ChangedIndicesMergeSelects ==
    ChangedMerged =>
        \A e \in ChangedEnvs :
            \A i \in 1..ArrayLength :
                Meaning(ret, e)[i] =
                    IF e[2] = 1 THEN Meaning(call.then_value, e)[i]
                    ELSE Meaning(call.else_value, e)[i]

\* C23: an array was returned for two arrays that differ when the
\* ArraySets write.
C23_Witness ==
    /\ ChangedMerged
    /\ \E e \in ChangedEnvs : Meaning(call.then_value, e) # Meaning(call.else_value, e)
    /\ \E e \in ChangedEnvs : Meaning(ret, e) # Meaning(call.then_value, e)

\* The positions in the arena of the instructions the call inserted.
ChangedEmitted == (call.before + 1)..Len(instructions)

\* The condition of the last EnableSideEffectsIf the call inserted before
\* position p, NoValue when there is none.
LivePredicate(p) ==
    IF \E q \in ChangedEmitted : q < p /\ instructions[q].op = "EnableSideEffectsIf"
    THEN instructions[CHOOSE q \in ChangedEmitted :
                          /\ q < p /\ instructions[q].op = "EnableSideEffectsIf"
                          /\ \A r \in ChangedEmitted :
                                (r < p /\ instructions[r].op = "EnableSideEffectsIf")
                                    => r <= q].condition
    ELSE NoValue

\* The ArraySets of the block the call found between the two arrays.
TouchedArraySets ==
    {value \in {call.then_value, call.else_value} :
        /\ IsArraySet(value)
        /\ InstructionAt(instructions, value.instruction).array
               \in {call.then_value, call.else_value}}

GlobalValue(variable) == 100 + variable.register

\* The names the two initializer_fn closures give the loop iterator.
IteratorNames == {"item_pointer", "subitem_start_pointer"}

\* The machine after one opcode other than a loop.
execute(machine, opcode) ==
    CASE opcode.opcode = "Mov" ->
            [machine EXCEPT !.registers =
                Bind(@, opcode.destination, machine.registers[opcode.source])]
      [] opcode.opcode = "Const" ->
            [machine EXCEPT !.registers = Bind(@, opcode.destination, opcode.value)]
      [] opcode.opcode = "BinaryIntOp" ->
            [machine EXCEPT !.registers =
                Bind(@, opcode.destination,
                     machine.registers[opcode.lhs] + machine.registers[opcode.rhs])]
      [] opcode.opcode = "Store" ->
            [machine EXCEPT !.memory =
                Bind(@, machine.registers[opcode.destination_pointer],
                     GlobalValue(opcode.source))]

\* The marker that ends the body of a loop under way.
LoopBackEdge(loop) == [opcode |-> "LoopBack", loop |-> loop]

\* codegen_for_loop: the test `iterator < loop_bound` with the iterator at
\* `iterator`: the body is run once more, or the loop is left.
loop_test(machine, loop, iterator, rest) ==
    IF iterator < machine.registers[loop.loop_bound]
    THEN [machine |-> [machine EXCEPT
                          !.registers = [name \in IteratorNames |-> iterator]
                                            @@ Bind(@, "iterator", iterator),
                          !.iterators = Append(@, iterator)],
          pending |-> loop.body \o <<LoopBackEdge(loop)>> \o rest]
    ELSE [machine |-> machine, pending |-> rest]

\* codegen_for_loop: what the iterator advances by.
loop_step(machine, loop) ==
    IF loop.step.tag = "None" THEN machine.registers["usize_one"]
    ELSE machine.registers[loop.step.value]

\* The groups of numeric element types.
NumericItemTypes == {<<NativeField>>, <<Unsigned(MaxBitSize), NativeField>>}

\* The addresses the array is placed at.
ItemsPointers == {0, 7}

\* A machine about to initialise a constant array of 1..MaxItemCount items
\* that repeat one group of numeric values.
MachineInit ==
    /\ SideInit
    /\ \E item_types \in NumericItemTypes, item_count \in 1..MaxItemCount,
          pointer \in ItemsPointers :
          /\ call = [op |-> "none", typ |-> ArrayType(item_types, item_count),
                     data |-> GlobalData(item_types, item_count, 0), pointer |-> pointer]
          /\ env = [registers |-> [usize_one |-> 1, items_pointer |-> pointer],
                    memory |-> <<>>, iterators |-> <<>>]
    /\ instructions = <<>>
    /\ block = <<>>
    /\ params = <<>>
    /\ replaced_values = <<>>
    /\ runtime = "Brillig"
    /\ pc = "ready"
    /\ ret = NoValue
    /\ pending = <<>>
    /\ new_instructions = <<>>

besidesMachine == <<instructions, block, params, replaced_values, runtime, ret,
                    new_instructions, slice_sizes, array_set_conditionals, blocks, storage,
                    key_to_value, value_to_key, locations, passes, history>>

\* The opcodes emitted are the program the machine runs.
CodeEmitted(opcodes) ==
    /\ brillig_context' = opcodes
    /\ pending' = opcodes
    /\ pc' = "running"

\* Brillig::initialize_constant_array_runtime on the array.
InitializeConstantArrayRuntime ==
    /\ pc = "ready"
    /\ call' = [call EXCEPT !.op = "initialize_constant_array_runtime"]
    /\ CodeEmitted(initialize_constant_array_runtime(
           call.typ.element_types, item_at(call.data, call.typ.element_types, 0),
           Len(call.data) \div Len(call.typ.element_types), "items_pointer", BrilligGlobals))
    /\ UNCHANGED <<besidesMachine, env>>

\* Brillig::initialize_constant_array_comptime on the array.
InitializeConstantArrayComptime ==
    /\ pc = "ready"
    /\ call' = [call EXCEPT !.op = "initialize_constant_array_comptime"]
    /\ CodeEmitted(initialize_constant_array_comptime(call.data, "items_pointer",
                                                      BrilligGlobals))
    /\ UNCHANGED <<besidesMachine, env>>

\* The machine runs the next opcode, a Mov, Const, BinaryIntOp or Store.
ExecuteOpcode ==
    /\ pc = "running" /\ pending # <<>>
    /\ Head(pending).opcode \notin {"ForLoop", "LoopBack"}
    /\ env' = execute(env, Head(pending))
    /\ pending' = Tail(pending)
    /\ UNCHANGED <<besidesMachine, call, pc, brillig_context>>

\* The machine enters a loop: the iterator starts at iterator_start.
EnterLoop ==
    /\ pc = "running" /\ pending # <<>>
    /\ Head(pending).opcode = "ForLoop"
    /\ env' = loop_test(env, Head(pending), env.registers[Head(pending).iterator_start],
                        Tail(pending)).machine
    /\ pending' = loop_test(env, Head(pending),
                            env.registers[Head(pending).iterator_start],
                            Tail(pending)).pending
    /\ UNCHANGED <<besidesMachine, call, pc, brillig_context>>

\* The body of the loop ended: the iterator advances and is tested.
LoopBack ==
    /\ pc = "running" /\ pending # <<>>
    /\ Head(pending).opcode = "LoopBack"
    /\ env' = loop_test(env, Head(pending).loop,
                        env.registers["iterator"] + loop_step(env, Head(pending).loop),
                        Tail(pending)).machine
    /\ pending' = loop_test(env, Head(pending).loop,
                            env.registers["iterator"] + loop_step(env, Head(pending).loop),
                            Tail(pending)).pending
    /\ UNCHANGED <<besidesMachine, call, pc, brillig_context>>

\* The last opcode has run.
Halt ==
    /\ pc = "running" /\ pending = <<>>
    /\ pc' = "halted"
    /\ UNCHANGED <<besidesMachine, call, env, pending, brillig_context>>

MachineNext ==
    \/ InitializeConstantArrayRuntime
    \/ InitializeConstantArrayComptime
    \/ ExecuteOpcode
    \/ EnterLoop
    \/ LoopBack
    \/ Halt

SpecMachine == MachineInit /\ [][MachineNext]_vars

\* The machine runs the opcodes one after the other until none is left.
SpecMachineFair == SpecMachine /\ WF_vars(MachineNext)

\* The cells of the array: pointer + j holds element j.
ArrayCells ==
    [address \in call.pointer..(call.pointer + Len(call.data) - 1) |->
        GlobalValue(BrilligGlobals[call.data[address - call.pointer + 1]])]

\* The cells written so far are cells of the array with their elements.
WritesArrayCells ==
    \A address \in DOMAIN env.memory :
        /\ address \in DOMAIN ArrayCells
        /\ env.memory[address] = ArrayCells[address]

\* What the code has written is right so far, and all of it once halted.
ArrayWritten ==
    /\ pc \in {"running", "halted"} => WritesArrayCells
    /\ pc = "halted" =>
          /\ DOMAIN env.memory = DOMAIN ArrayCells
          /\ call.op = "initialize_constant_array_runtime" =>
                env.iterators = [i \in 1..ItemCount |->
                                    call.pointer + (i - 1) * GroupLength]

\* C25: for a non-empty array of items that repeat one group of numeric
\* values, the code of initialize_constant_array_runtime and the code of
\* initialize_constant_array_comptime write cells of the array only, both
\* halt, with cell pointer + j holding element j for every j, and the
\* runtime loop has then run item_count times, its iterator advancing by
\* the length of the group from pointer on.
C25_RuntimeLoopWritesWhatComptimeWrites ==
    /\ []ArrayWritten
    /\ <>(pc = "halted")

\* C25: the runtime loop has halted on an array of three items of two
\* values or more.
C25_Witness ==
    /\ pc = "halted"
    /\ call.op = "initialize_constant_array_runtime"
    /\ GroupLength = 2
    /\ ItemCount >= 3
    /\ Len(env.iterators) = ItemCount

(* ------------------------------------------------------------------ *)
(* The blocks of a function: inserting instructions, inlining a block   *)
(*                                                                      *)
(* `instructions` is the arena, `blocks` the blocks with the ids of     *)
(* their instructions and their terminator, `locations` the call stack  *)
(* of every instruction, block b (from 0) being blocks[b + 1].          *)
(* ------------------------------------------------------------------ *)

Constrain(lhs, rhs) == [op |-> "Constrain", lhs |-> lhs, rhs |-> rhs]
\* A call of the value func that returns a result of each of result_types.
CallOfMany(func, arguments, result_types) ==
    [op |-> "Call", func |-> func, arguments |-> arguments, result_types |-> result_types]

\* The variants of TerminatorInstruction that take no condition.
Jmp(destination) == [op |-> "Jmp", destination |-> destination, arguments |-> <<>>]
ReturnTerminator(return_values) ==
    [op |-> "Return", return_values |-> return_values, call_stack |-> <<>>]

\* Instruction::result_count
result_count(instruction) ==
    IF instruction.op \in {"Constrain", "EnableSideEffectsIf"} THEN 0
    ELSE IF "result_types" \in DOMAIN instruction THEN Len(instruction.result_types)
    ELSE 1

\* The variants of SimplifyResult the cast simplifier does not return.
SimplifiedToMultiple(values) == [kind |-> "SimplifiedToMultiple", values |-> values]
SimplifiedToInstructionMultiple(simplified_instructions) ==
    [kind |-> "SimplifiedToInstructionMultiple", instructions |-> simplified_instructions]
SimplifyRemove == [kind |-> "Remove"]

\* The variants of InsertInstructionResult that hold no instruction.
InsertSimplifiedToMultiple(values) == [kind |-> "SimplifiedToMultiple", values |-> values]
InstructionRemoved == [kind |-> "InstructionRemoved"]

\* The graph of the function.
Graph == [instructions |-> instructions, blocks |-> blocks, locations |-> locations]

\* Instruction::simplify: the cast simplifier for a Cast; for a Constrain
\* and a Call, every result the simplifier of the opcode can give.
simplifications(graph, instruction) ==
    CASE instruction.op = "Cast" ->
           {simplify([instructions |-> graph.instructions, block |-> <<>>,
                      params |-> params, replaced_values |-> replaced_values],
                     instruction)}
      [] instruction.op = "Constrain" ->
           {SimplifyNone, SimplifyRemove,
            SimplifiedToInstructionMultiple(<<Constrain(instruction.rhs, instruction.lhs)>>),
            SimplifiedToInstructionMultiple(
                <<Constrain(instruction.lhs, instruction.lhs),
                  Constrain(instruction.rhs, instruction.rhs)>>)}
      [] instruction.op = "Call" ->
           {SimplifyNone, SimplifiedToMultiple(instruction.arguments)}
      [] OTHER -> {SimplifyNone}

\* make_instruction, BasicBlock::insert_instruction and locations.insert
\* with every block but the entry block forgotten.
record_instruction_in_entry(graph, instruction, block_id, call_stack) ==
    [instructions |-> Append(graph.instructions, instruction),
     blocks |-> [graph.blocks EXCEPT ![1].instructions =
                                         Append(@, Len(graph.instructions))],
     locations |-> (Len(graph.instructions) :> call_stack) @@ graph.locations]

\* make_instruction, BasicBlock::insert_instruction and locations.insert:
\* the three steps that record one instruction.
record_instruction(graph, instruction, block_id, call_stack) ==
    [instructions |-> Append(graph.instructions, instruction),
     blocks |-> [graph.blocks EXCEPT ![block_id + 1].instructions =
                                         Append(@, Len(graph.instructions))],
     locations |-> (Len(graph.instructions) :> call_stack) @@ graph.locations]

RECURSIVE record_instructions(_, _, _, _)
\* insert_instruction_and_results, the loop over the instructions of
\* SimplifiedToInstructionMultiple.
record_instructions(graph, simplified_instructions, block_id, call_stack) ==
    IF simplified_instructions = <<>> THEN graph
    ELSE record_instructions(
             record_instruction(graph, Head(simplified_instructions), block_id, call_stack),
             Tail(simplified_instructions), block_id, call_stack)

\* What a call that aborts returns.
Aborted == [kind |-> "panic"]

\* DataFlowGraph::insert_instruction_and_results in a function of several
\* blocks, after the instruction was simplified: the graph afterwards and
\* the InsertInstructionResult.
insert_in_block(graph, instruction, simplified, block_id, call_stack) ==
    CASE simplified.kind = "SimplifiedTo" ->
           [graph |-> graph, result |-> InsertSimplifiedTo(simplified.value)]
      [] simplified.kind = "SimplifiedToMultiple" ->
           [graph |-> graph, result |-> InsertSimplifiedToMultiple(simplified.values)]
      [] simplified.kind = "Remove" ->
           [graph |-> graph, result |-> InstructionRemoved]
      [] simplified.kind = "SimplifiedToInstructionMultiple" ->
           IF \/ /\ Len(simplified.instructions) > 1
                 /\ \E i \in 1..Len(simplified.instructions) :
                       simplified.instructions[i].op # "Constrain"
              \/ simplified.instructions = <<>>
           THEN [graph |-> graph, result |-> Aborted]
           ELSE [graph |-> record_instructions(graph, simplified.instructions,
                                               block_id, call_stack),
                 result |-> Results(Len(graph.instructions)
                                        + Len(simplified.instructions) - 1,
                                    result_count(simplified.instructions[
                                        Len(simplified.instructions)]))]
      [] simplified.kind = "SimplifiedToInstruction" ->
           [graph |-> record_instruction(graph, simplified.instruction,
                                         block_id, call_stack),
            result |-> Results(Len(graph.instructions),
                               result_count(simplified.instruction))]
      [] simplified.kind = "None" ->
           [graph |-> record_instruction(graph, instruction, block_id, call_stack),
            result |-> Results(Len(graph.instructions), result_count(instruction))]

\* BasicBlock::take_terminator: the terminator taken, NoValue when the
\* call aborts.
take_terminator(basic_block) == basic_block.terminator

\* BasicBlock::take_instructions and take_terminator: the block left.
taken(basic_block) ==
    [instructions |-> <<>>, terminator |-> Some(ReturnTerminator(<<>>))]

\* DataFlowGraph::inline_block with the instructions of the source put in
\* front of those of the destination.
inline_block_in_front(function_blocks, source, destination) ==
    [[function_blocks EXCEPT ![source + 1] = taken(@)] EXCEPT
        ![destination + 1] =
            [instructions |-> function_blocks[source + 1].instructions \o @.instructions,
             terminator |-> Some(take_terminator(function_blocks[source + 1]).value)]]

\* DataFlowGraph::inline_block: the blocks afterwards, when the source has
\* a terminator to take.
inline_block(function_blocks, source, destination) ==
    [[function_blocks EXCEPT ![source + 1] = taken(@)] EXCEPT
        ![destination + 1] =
            [instructions |-> @.instructions \o function_blocks[source + 1].instructions,
             terminator |-> Some(take_terminator(function_blocks[source + 1]).value)]]

\* The calls made on the blocks of one function in one run.
MaxBlockCalls == 2

\* The ids of the blocks of the function.
BlockIds == {b - 1 : b \in DOMAIN blocks}

\* The call stacks instructions are inserted with.
CallStacks == {1, 2}

\* The instructions the function starts with: two casts of the
\* parameter, a Constrain of them and a call.
BlocksProgram ==
    << Cast(Param(0), NativeField),
       Cast(Param(0), Unsigned(1)),
       Constrain(InstructionResult(0), Param(0)),
       CallOfMany(FunctionValue(0), <<Param(0), InstructionResult(1)>>,
                  <<NativeField, NativeField>>) >>

\* The instructions inserted.
InsertedInstructions ==
    { Cast(Param(0), Unsigned(MaxBitSize)),
      Cast(Param(0), NativeField),
      Cast(InstructionResult(1), NativeField),
      Constrain(Param(0), InstructionResult(0)),
      CallOfMany(FunctionValue(0), <<InstructionResult(0), Param(0)>>,
                 <<NativeField, NativeField>>) }

\* The blocks the instructions of the function start in.
BlocksOfInstructions ==
    { <<0, 0, 0, 0>>, <<0, 1, 1, 2>>, <<1, 1, 0, 0>>, <<2, 0, 2, 1>>, <<1, 2, 2, 2>> }

\* The terminators the blocks start with, a block under construction
\* having none.
BlockTerminators ==
    { <<Some(Jmp(1)), Some(Jmp(2)), Some(ReturnTerminator(<<Param(0)>>))>>,
      <<Some(Jmp(2)), NoValue, Some(ReturnTerminator(<<>>))>>,
      <<NoValue, Some(Jmp(0)), NoValue>> }

BlocksInit ==
    /\ instructions = BlocksProgram
    /\ params = <<Unsigned(MaxBitSize)>>
    /\ \E block_of \in BlocksOfInstructions, terminators \in BlockTerminators :
          blocks = [b \in DOMAIN terminators |->
                       [instructions |-> BlockInstructions(block_of, b - 1),
                        terminator |-> terminators[b]]]
    /\ locations = [id \in 0..(Len(BlocksProgram) - 1) |-> 0]
    /\ replaced_values = <<>>
    /\ runtime = "Acir"
    /\ block = <<>>
    /\ env = <<>>
    /\ pc = "ready"
    /\ call = [op |-> "none"]
    /\ ret = NoValue
    /\ pending = <<>>
    /\ new_instructions = <<>>
    /\ slice_sizes = <<>>
    /\ array_set_conditionals = <<>>
    /\ storage = <<>>
    /\ key_to_value = <<>>
    /\ value_to_key = <<>>
    /\ passes = <<>>
    /\ brillig_context = <<>>
    /\ history = <<>>

besidesBlocks == <<params, replaced_values, runtime, block, env, pending, new_instructions,
                   slice_sizes, array_set_conditionals, storage, key_to_value,
                   value_to_key, passes, brillig_context>>

\* DataFlowGraph::insert_instruction_and_results
InsertInstructionAndResults ==
    /\ pc = "ready"
    /\ Len(history) < MaxBlockCalls
    /\ \E instruction \in InsertedInstructions, block_id \in BlockIds,
          call_stack \in CallStacks :
          \E simplified \in simplifications(Graph, instruction) :
             /\ call' = [op |-> "insert_instruction_and_results",
                         instruction |-> instruction, block |-> block_id,
                         call_stack |-> call_stack, simplified |-> simplified,
                         before |-> Graph]
             /\ instructions' = insert_in_block(Graph, instruction, simplified,
                                                block_id, call_stack).graph.instructions
             /\ blocks' = insert_in_block(Graph, instruction, simplified,
                                          block_id, call_stack).graph.blocks
             /\ locations' = insert_in_block(Graph, instruction, simplified,
                                             block_id, call_stack).graph.locations
             /\ ret' = insert_in_block(Graph, instruction, simplified,
                                       block_id, call_stack).result
    /\ history' = Append(history, "insert_instruction_and_results")
    /\ UNCHANGED <<besidesBlocks, pc>>

\* DataFlowGraph::inline_block.  A source without a terminator aborts the
\* run.
InlineBlock ==
    /\ pc = "ready"
    /\ Len(history) < MaxBlockCalls
    /\ \E source \in BlockIds, destination \in BlockIds :
          /\ source # destination
          /\ call' = [op |-> "inline_block", source |-> source,
                      destination |-> destination, before |-> Graph]
          /\ IF take_terminator(blocks[source + 1]).tag = "None"
             THEN /\ pc' = "panic"
                  /\ blocks' = [blocks EXCEPT ![source + 1].instructions = <<>>]
             ELSE /\ pc' = pc
                  /\ blocks' = inline_block(blocks, source, destination)
    /\ history' = Append(history, "inline_block")
    /\ ret' = NoValue
    /\ UNCHANGED <<besidesBlocks, instructions, locations>>

BlocksNext == InsertInstructionAndResults \/ InlineBlock

SpecBlocks == BlocksInit /\ [][BlocksNext]_vars

\* The instructions insert_instruction_and_results has to record for what
\* the simplifier returned.
Recorded ==
    CASE call.simplified.kind = "SimplifiedToInstructionMultiple" ->
           call.simplified.instructions
      [] call.simplified.kind = "SimplifiedToInstruction" -> <<call.simplified.instruction>>
      [] call.simplified.kind = "None" -> <<call.instruction>>
      [] OTHER -> <<>>

\* The ids the recorded instructions take, in order.
RecordedIds ==
    [i \in 1..Len(Recorded) |-> Len(call.before.instructions) + i - 1]

InstructionResultAt(instruction, at) ==
    [tag |-> "Instruction", instruction |-> instruction, position |-> at]

\* InsertInstructionResult::len
insert_result_len(result) ==
    CASE result.kind = "SimplifiedTo" -> 1
      [] result.kind = "SimplifiedToMultiple" -> Len(result.values)
      [] result.kind = "Results" -> result.result_count
      [] result.kind = "InstructionRemoved" -> 0

\* InsertInstructionResult::results
results_iter(result) == [results |-> result, index |-> 0]

\* InsertInstructionResultIter::next: the iterator afterwards and the
\* Option returned; indexing a Vec past its end aborts.
iter_next(iter) ==
    CASE iter.results.kind = "Results" /\ iter.index < iter.results.result_count ->
           [iter |-> [iter EXCEPT !.index = @ + 1],
            item |-> Some(InstructionResultAt(iter.results.id, iter.index))]
      [] iter.results.kind = "SimplifiedTo" /\ iter.index = 0 ->
           [iter |-> [iter EXCEPT !.index = @ + 1], item |-> Some(iter.results.value)]
      [] iter.results.kind = "SimplifiedToMultiple" ->
           IF iter.index < Len(iter.results.values)
           THEN [iter |-> [iter EXCEPT !.index = @ + 1],
                 item |-> Some(iter.results.values[iter.index + 1])]
           ELSE [iter |-> iter, item |-> Aborted]
      [] OTHER -> [iter |-> iter, item |-> NoValue]

\* InsertInstructionResultIter::size_hint: the lower bound and the upper.
size_hint(iter) == <<0, Some(insert_result_len(iter.results))>>

\* The values an insertion can return.
ResultValues == {Param(0), Param(1)}

\* The vectors of one to NumValues values.
ResultVectors == UNION {[1..n -> ResultValues] : n \in 1..NumValues}

\* The results of an insertion, of each of the four variants.
InsertionResults ==
    {Results(id, count) : id \in 0..1, count \in 0..NumValues}
        \cup {InsertSimplifiedTo(value) : value \in ResultValues}
        \cup {InsertSimplifiedToMultiple(values) : values \in ResultVectors}
        \cup {InstructionRemoved}

IterInit ==
    /\ \E result \in InsertionResults : ret = results_iter(result)
    /\ history = <<>>
    /\ call = [op |-> "results"]
    /\ pc = "ready"
    /\ instructions = <<>>
    /\ block = <<>>
    /\ params = <<>>
    /\ replaced_values = <<>>
    /\ env = <<>>
    /\ runtime = "Acir"
    /\ pending = <<>>
    /\ new_instructions = <<>>
    /\ slice_sizes = <<>>
    /\ array_set_conditionals = <<>>
    /\ blocks = <<>>
    /\ storage = <<>>
    /\ key_to_value = <<>>
    /\ value_to_key = <<>>
    /\ locations = <<>>
    /\ passes = <<>>
    /\ brillig_context = <<>>

besidesIter == <<instructions, block, params, replaced_values, env, runtime, pending,
                 new_instructions, slice_sizes, array_set_conditionals, blocks, storage,
                 key_to_value, value_to_key, locations, passes, brillig_context>>

\* InsertInstructionResultIter::next, called up to twice more than the
\* longest result has values.
IterNext ==
    /\ pc = "ready"
    /\ Len(history) < NumValues + 2
    /\ call' = [op |-> "next"]
    /\ IF iter_next(ret).item = Aborted
       THEN pc' = "panic" /\ UNCHANGED <<ret, history>>
       ELSE /\ ret' = iter_next(ret).iter
            /\ history' = Append(history, iter_next(ret).item)
            /\ pc' = pc
    /\ UNCHANGED besidesIter

\* InsertInstructionResultIter::size_hint
IterSizeHint ==
    /\ pc = "ready"
    /\ call' = [op |-> "size_hint", hint |-> size_hint(ret)]
    /\ UNCHANGED <<besidesIter, ret, history, pc>>

IterNextStep == IterNext \/ IterSizeHint

SpecIter == IterInit /\ [][IterNextStep]_vars

\* The value at a position of an InsertInstructionResult.
ResultAt(result, at) ==
    CASE result.kind = "Results" -> InstructionResultAt(result.id, at)
      [] result.kind = "SimplifiedTo" -> result.value
      [] result.kind = "SimplifiedToMultiple" -> result.values[at + 1]

\* The values still to come from the iterator.
Remaining ==
    IF Len(history) < insert_result_len(ret.results)
    THEN insert_result_len(ret.results) - Len(history) ELSE 0

\* next() has returned the values in the order of their positions, then
\* None.
YieldsInOrder ==
    \A i \in 1..Len(history) :
        history[i] = IF i <= insert_result_len(ret.results)
                     THEN Some(ResultAt(ret.results, i - 1)) ELSE NoValue

\* C27: for each variant of InsertInstructionResult the iterator of
\* results() returns the len() values in the order of their positions and
\* None on every call after them, no call aborts, and size_hint() gives the
\* number of values still to come as its lower and as its upper bound.
C27_ResultsIterIsExact ==
    /\ pc # "panic"
    /\ YieldsInOrder
    /\ call.op = "size_hint" =>
          call.hint = <<Remaining, Some(Remaining)>>

\* How often an id is in a list of instruction ids.
Occurrences(ids, id) == Cardinality({i \in DOMAIN ids : ids[i] = id})

\* The ids of the instructions of two blocks, one list after the other.
IdsOfBoth(function_blocks, source, destination) ==
    function_blocks[destination + 1].instructions
        \o function_blocks[source + 1].instructions

NewDataBusBuilder ==
    [values |-> <<>>, index |-> 0, map |-> <<>>, databus |-> NoValue,
     call_data_id |-> NoValue]

\* Type::element_size: the number of values of one item of an array.
element_size(typ) == Len(typ.element_types)

\* dfg.length_constant
length_constant(length) == NumericConstant(length, Unsigned(U32Bits))

\* databus.map.insert(value, databus.index) with the index of the value
\* that follows.
index_map_insert_next(map, value, at) ==
    [v \in DOMAIN map \cup {value} |-> IF v = value THEN at + 1 ELSE map[v]]

\* databus.map.insert(value, databus.index)
index_map_insert(map, value, at) ==
    [v \in DOMAIN map \cup {value} |-> IF v = value THEN at ELSE map[v]]

\* add_to_data_bus: what the index into the array advances by after a
\* subitem, -1 for a subitem of an unsupported type.
index_advance(subitem_typ) ==
    CASE subitem_typ.kind \in {"Array", "Slice"} -> element_size(subitem_typ)
      [] IsNumeric(subitem_typ) -> 1
      [] OTHER -> -1

RECURSIVE add_to_data_bus(_, _)
RECURSIVE add_array_to_data_bus(_, _, _, _, _)
\* FunctionBuilder::add_to_data_bus on the builder b, its graph and its
\* databus; b.aborted after a panic.
add_to_data_bus(b, value) ==
    IF b.aborted THEN b
    ELSE IF b.databus.databus # NoValue THEN [b EXCEPT !.aborted = TRUE]
    ELSE IF IsNumeric(type_of_value(b.dfg.instructions, b.dfg.params, value))
    THEN [b EXCEPT !.databus.values = Append(@, value), !.databus.index = @ + 1]
    ELSE IF type_of_value(b.dfg.instructions, b.dfg.params, value).kind = "Array"
    THEN add_array_to_data_bus(
             [b EXCEPT !.databus.map = index_map_insert(@, value, b.databus.index)],
             value, type_of_value(b.dfg.instructions, b.dfg.params, value), 0, 0)
    ELSE [b EXCEPT !.aborted = TRUE]

\* add_to_data_bus, the two loops over the items of an array and the
\* subitems of an item, `done` subitems in, the next at array_index.
add_array_to_data_bus(b, value, typ, done, array_index) ==
    IF b.aborted \/ done = typ.length * Len(typ.element_types) THEN b
    ELSE IF index_advance(typ.element_types[(done % Len(typ.element_types)) + 1]) = -1
    THEN [b EXCEPT !.aborted = TRUE]
    ELSE add_array_to_data_bus(
             add_to_data_bus(
                 [b EXCEPT !.dfg = insert_instruction_and_results(b.dfg,
                       ArrayGet(value, length_constant(array_index),
                                typ.element_types[(done % Len(typ.element_types)) + 1])).dfg],
                 InstructionResult(Len(b.dfg.instructions))),
             value, typ, done + 1,
             array_index
                 + index_advance(typ.element_types[(done % Len(typ.element_types)) + 1]))

RECURSIVE add_all_to_data_bus(_, _)
\* initialize_data_bus: for value in values
add_all_to_data_bus(b, values) ==
    IF values = <<>> THEN b
    ELSE add_all_to_data_bus(add_to_data_bus(b, Head(values)), Tail(values))

\* initialize_data_bus: the graph with the MakeArray of the values walked,
\* inserted when there are values and the runtime is ACIR.
data_bus_array(b, function_runtime) ==
    IF Len(b.databus.values) > 0 /\ function_runtime = "Acir"
    THEN insert_instruction_and_results(b.dfg,
             MakeArray(b.databus.values,
                       ArrayType(<<NativeField>>, Len(b.databus.values))))
    ELSE [dfg |-> b.dfg, result |-> NoValue]

\* FunctionBuilder::initialize_data_bus: the DataBusBuilder returned.
initialize_data_bus(b, function_runtime, call_data_id) ==
    [index |-> 0,
     map |-> b.databus.map,
     databus |-> IF data_bus_array(b, function_runtime).result = NoValue THEN NoValue
                 ELSE Some(first(data_bus_array(b, function_runtime).result)),
     values |-> <<>>,
     call_data_id |-> call_data_id]

\* The values a data bus is made of in one run.
MaxDataBusValues == 2

\* The types of the values: numeric, arrays of numeric items, of items of
\* two numeric values and of arrays, and the types a data bus refuses.
DataBusTypes ==
    { NativeField, Unsigned(MaxBitSize),
      ArrayType(<<NativeField>>, ArrayLength),
      ArrayType(<<NativeField, Unsigned(1)>>, 2),
      ArrayType(<<ArrayType(<<NativeField>>, 2)>>, ArrayLength),
      ArrayType(<<NativeField, ArrayType(<<Unsigned(1)>>, 2)>>, 1),
      ArrayType(<<ReferenceType>>, 1),
      ReferenceType, SliceType(<<NativeField>>), FunctionType }

DataBusInit ==
    /\ params \in UNION {[1..n -> DataBusTypes] : n \in 0..MaxDataBusValues}
    /\ runtime \in {"Acir", "Brillig"}
    /\ instructions = <<>>
    /\ block = <<>>
    /\ replaced_values = <<>>
    /\ env = <<>>
    /\ pc = "ready"
    /\ call = [op |-> "none"]
    /\ ret = NoValue
    /\ pending = <<>>
    /\ new_instructions = <<>>
    /\ SideInit

\* The builder before the walk.
DataBusStart == [dfg |-> Dfg, databus |-> NewDataBusBuilder, aborted |-> FALSE]

\* The parameters of the entry block, in the order they are declared.
BlockParameters == [i \in 1..Len(params) |-> Param(i - 1)]

\* FunctionBuilder::initialize_data_bus on a new DataBusBuilder and the
\* parameters of the function.
InitializeDataBus ==
    /\ pc = "ready"
    /\ \E call_data_id \in {NoValue, Some(0)} :
          /\ call' = [op |-> "initialize_data_bus", values |-> BlockParameters,
                      call_data_id |-> call_data_id,
                      flattened |-> add_all_to_data_bus(DataBusStart,
                                                        BlockParameters).databus.values]
          /\ IF add_all_to_data_bus(DataBusStart, BlockParameters).aborted
             THEN /\ pc' = "panic"
                  /\ UNCHANGED <<instructions, block, ret>>
             ELSE /\ pc' = "done"
                  /\ instructions' =
                         data_bus_array(add_all_to_data_bus(DataBusStart, BlockParameters),
                                        runtime).dfg.instructions
                  /\ block' =
                         data_bus_array(add_all_to_data_bus(DataBusStart, BlockParameters),
                                        runtime).dfg.block
                  /\ ret' = initialize_data_bus(
                                add_all_to_data_bus(DataBusStart, BlockParameters),
                                runtime, call_data_id)
    /\ UNCHANGED <<sideVars, params, replaced_values, env, runtime, pending,
                   new_instructions>>

DataBusNext == InitializeDataBus

SpecDataBus == DataBusInit /\ [][DataBusNext]_vars

RECURSIVE Refused(_)
\* A type with a reference, a slice or a function in it.
Refused(typ) ==
    IF IsNumeric(typ) THEN FALSE
    ELSE IF typ.kind = "Array"
    THEN \E i \in 1..Len(typ.element_types) : Refused(typ.element_types[i])
    ELSE TRUE

RECURSIVE ElementPath(_)
\* Where a value is: the position of its parameter, followed by the index
\* of every ArrayGet down to it.
ElementPath(value) ==
    IF value.tag = "Param" THEN <<value.position>>
    ELSE ElementPath(InstructionAt(instructions, value.instruction).array)
             \o <<InstructionAt(instructions, value.instruction).index.constant>>

RECURSIVE LeavesOf(_, _)
RECURSIVE LeavesFrom(_, _, _)
\* The numeric leaves of the value at `path`, in order: the value itself,
\* or the leaves of each element of the array, element after element.
LeavesOf(path, typ) ==
    IF IsNumeric(typ) THEN <<path>> ELSE LeavesFrom(path, typ, 0)

LeavesFrom(path, typ, element) ==
    IF element = typ.length * Len(typ.element_types) THEN <<>>
    ELSE LeavesOf(path \o <<element>>,
                  typ.element_types[(element % Len(typ.element_types)) + 1])
             \o LeavesFrom(path, typ, element + 1)

RECURSIVE LeavesOfAll(_)
\* The numeric leaves of the parameters from the n-th on.
LeavesOfAll(n) ==
    IF n > Len(params) THEN <<>>
    ELSE LeavesOf(<<n - 1>>, params[n]) \o LeavesOfAll(n + 1)

\* Whether `path` starts with `prefix`.
StartsWith(path, prefix) ==
    Len(prefix) <= Len(path) /\ SubSeq(path, 1, Len(prefix)) = prefix

\* The number of leaves in front of the first leaf of the array at `path`.
LeavesBefore(path) ==
    Cardinality({i \in 1..Len(call.flattened) :
        \A j \in 1..i : ~StartsWith(ElementPath(call.flattened[j]), path)})

\* The array values walked: parameters and results of ArrayGet.
ArrayValues ==
    {v \in {Param(i - 1) : i \in 1..Len(params)}
             \cup {InstructionResult(i - 1) :
                       i \in {j \in 1..Len(instructions) : instructions[j].op = "ArrayGet"}} :
        type_of_value(instructions, params, v).kind = "Array"}

\* The MakeArray instructions of the graph.
MakeArrays == {i \in 1..Len(instructions) : instructions[i].op = "MakeArray"}

FILE_EXTENSION == "nr"

\* Path::with_extension(""): the last component without its extension.
with_extension_none(file_path) ==
    IF file_path = <<>> \/ Len(file_path[Len(file_path)]) < 2 THEN file_path
    ELSE [file_path EXCEPT ![Len(file_path)] = SubSeq(@, 1, Len(@) - 1)]

\* Path::parent of a path with a last component.
parent_of(file_path) == SubSeq(file_path, 1, Len(file_path) - 1)

\* Path::file_stem: the last component without its extension, NoValue for
\* a path of no component.
file_stem(file_path) ==
    IF file_path = <<>> THEN NoValue
    ELSE IF Len(file_path[Len(file_path)]) < 2 THEN Some(file_path[Len(file_path)])
    ELSE Some(SubSeq(file_path[Len(file_path)], 1, Len(file_path[Len(file_path)]) - 1))

\* Path::join of one more component.
join(file_path, component) == Append(file_path, component)

\* FileManager::name_to_id
name_to_id(path_to_id, file_path) ==
    IF file_path \in DOMAIN path_to_id THEN Some(path_to_id[file_path]) ELSE NoValue

\* should_check_siblings_for_module answering yes for every module.
should_check_siblings_always(module_path, parent_path) == TRUE

\* should_check_siblings_for_module
should_check_siblings_for_module(module_path, parent_path) ==
    IF file_stem(module_path) # NoValue
    THEN \/ file_stem(module_path).value = <<"main">>
         \/ file_stem(module_path).value = <<"lib">>
         \/ file_stem(module_path).value = <<"mod">>
         \/ file_stem(module_path) = file_stem(parent_path)
    ELSE TRUE

\* find_module: start_dir
start_dir(anchor_path) ==
    IF should_check_siblings_for_module(anchor_path, parent_of(anchor_path))
    THEN parent_of(anchor_path)
    ELSE anchor_path

\* find_module: mod_name_candidate
mod_name_candidate(anchor_path, mod_name) ==
    join(start_dir(anchor_path), <<mod_name, FILE_EXTENSION>>)

\* find_module: mod_nr_candidate
mod_nr_candidate(anchor_path, mod_name) ==
    join(join(start_dir(anchor_path), <<mod_name>>), <<"mod", FILE_EXTENSION>>)

\* The variants of DefCollectorErrorKind that find_module returns.
ModuleDeclError(kind, mod_name, expected_path, alternative_path) ==
    [kind |-> kind, mod_name |-> mod_name, expected_path |-> expected_path,
     alternative_path |-> alternative_path]

\* find_module, once the path of the anchor is stripped of its extension.
find_module_from(path_to_id, anchor_path, mod_name) ==
    IF /\ name_to_id(path_to_id, mod_nr_candidate(anchor_path, mod_name)) # NoValue
       /\ name_to_id(path_to_id, mod_name_candidate(anchor_path, mod_name)) # NoValue
    THEN Err(ModuleDeclError("OverlappingModuleDecls", mod_name,
                             mod_name_candidate(anchor_path, mod_name),
                             mod_nr_candidate(anchor_path, mod_name)))
    ELSE IF name_to_id(path_to_id, mod_nr_candidate(anchor_path, mod_name)) # NoValue
    THEN Ok(name_to_id(path_to_id, mod_nr_candidate(anchor_path, mod_name)).value)
    ELSE IF name_to_id(path_to_id, mod_name_candidate(anchor_path, mod_name)) # NoValue
    THEN Ok(name_to_id(path_to_id, mod_name_candidate(anchor_path, mod_name)).value)
    ELSE Err(ModuleDeclError("UnresolvedModuleDecl", mod_name,
                             mod_name_candidate(anchor_path, mod_name),
                             mod_nr_candidate(anchor_path, mod_name)))

\* find_module
find_module(id_to_path, path_to_id, anchor, mod_name) ==
    find_module_from(path_to_id, with_extension_none(id_to_path[anchor]), mod_name)

\* The files of one file manager.
MaxFiles == 3

\* The names of the modules declared.
ModuleNames == {"foo", "bar"}

\* The source file `stem`.nr in the directory `directories`.
SourceFile(directories, stem) ==
    [i \in 1..(Len(directories) + 1) |->
        IF i <= Len(directories) THEN <<directories[i]>> ELSE <<stem, FILE_EXTENSION>>]

\* The files a package can hold: the roots of a crate, modules beside
\* them, modules in the directory of a module.
SourceFiles ==
    {SourceFile(<<>>, stem) : stem \in {"main", "lib", "mod", "foo", "bar"}}
        \cup {SourceFile(<<"foo">>, stem) : stem \in {"foo", "bar", "mod"}}
        \cup {SourceFile(<<"bar">>, stem) : stem \in {"foo", "mod"}}
        \cup {SourceFile(<<"foo", "bar">>, "mod"), SourceFile(<<"lib">>, "foo"),
              SourceFile(<<"main">>, "bar")}

\* The orders files are added to a file manager in.
FileLists ==
    {files \in UNION {[1..n -> SourceFiles] : n \in 1..MaxFiles} :
        \A i, j \in DOMAIN files : i # j => files[i] # files[j]}

FilesInit ==
    /\ \E files \in FileLists :
          /\ key_to_value = [id \in 0..(Len(files) - 1) |-> files[id + 1]]
          /\ value_to_key = [file_path \in {files[i] : i \in DOMAIN files} |->
                                (CHOOSE i \in DOMAIN files : files[i] = file_path) - 1]
    /\ pc = "ready"
    /\ call = [op |-> "none"]
    /\ ret = NoValue
    /\ instructions = <<>>
    /\ block = <<>>
    /\ params = <<>>
    /\ replaced_values = <<>>
    /\ env = <<>>
    /\ runtime = "Acir"
    /\ pending = <<>>
    /\ new_instructions = <<>>
    /\ slice_sizes = <<>>
    /\ array_set_conditionals = <<>>
    /\ blocks = <<>>
    /\ storage = <<>>
    /\ locations = <<>>
    /\ passes = <<>>
    /\ brillig_context = <<>>
    /\ history = <<>>

\* find_module for a module declared in one of the files.
FindModule ==
    /\ pc = "ready"
    /\ \E anchor \in DOMAIN key_to_value, mod_name \in ModuleNames :
          /\ call' = [op |-> "find_module", anchor |-> anchor, mod_name |-> mod_name]
          /\ ret' = find_module(key_to_value, value_to_key, anchor, mod_name)
    /\ pc' = "done"
    /\ UNCHANGED <<besidesMaps, key_to_value, value_to_key, storage, history>>

FilesNext == FindModule

SpecFiles == FilesInit /\ [][FilesNext]_vars

\* The name of the anchor file without ".nr".
AnchorName == key_to_value[call.anchor][Len(key_to_value[call.anchor])][1]

\* The directory the anchor file is in.
AnchorDirectory ==
    [i \in 1..(Len(key_to_value[call.anchor]) - 1) |-> key_to_value[call.anchor][i][1]]

\* The directory the module is looked for in: the anchor's own for main,
\* lib, mod and a file named as its directory, else the one named after
\* the anchor.
SearchedDirectory ==
    IF \/ AnchorName \in {"main", "lib", "mod"}
       \/ AnchorDirectory # <<>> /\ AnchorName = AnchorDirectory[Len(AnchorDirectory)]
    THEN AnchorDirectory
    ELSE Append(AnchorDirectory, AnchorName)

\* The two files a module can be in.
ModuleFile == SourceFile(SearchedDirectory, call.mod_name)
ModuleDirectoryFile == SourceFile(Append(SearchedDirectory, call.mod_name), "mod")

\* C30: find_module(anchor, name) looks at name.nr and name/mod.nr in the
\* anchor's own directory when the anchor is main, lib, mod or named as its
\* directory, and in the directory named after the anchor otherwise; it
\* returns the id of the one that exists, OverlappingModuleDecls when both
\* exist and UnresolvedModuleDecl when neither does, whatever other files
\* there are.
C30_FindModuleLooksInTwoPlaces ==
    call.op = "find_module" =>
        IF ModuleFile \in DOMAIN value_to_key /\ ModuleDirectoryFile \in DOMAIN value_to_key
        THEN ret.tag = "Err" /\ ret.error.kind = "OverlappingModuleDecls"
        ELSE IF ModuleFile \in DOMAIN value_to_key
        THEN ret = Ok(value_to_key[ModuleFile])
        ELSE IF ModuleDirectoryFile \in DOMAIN value_to_key
        THEN ret = Ok(value_to_key[ModuleDirectoryFile])
        ELSE ret.tag = "Err" /\ ret.error.kind = "UnresolvedModuleDecl"

\* C30: a module was not found from a regular file although a file of its
\* name is beside the anchor, with a mod.nr in the same directory.
C30_Witness ==
    /\ call.op = "find_module"
    /\ AnchorName \notin {"main", "lib", "mod"}
    /\ SearchedDirectory # AnchorDirectory
    /\ SourceFile(AnchorDirectory, call.mod_name) \in DOMAIN value_to_key
    /\ SourceFile(AnchorDirectory, "mod") \in DOMAIN value_to_key
    /\ ret.tag = "Err"
    /\ ret.error.kind = "UnresolvedModuleDecl"

====
